---- MODULE Spec2Model ----
(***************************************************************************)
(* ERP upload session store and income-statement synthesis of pnl-ai:      *)
(*   backend/services/erp_data_processor.py  (ERPDataProcessor)            *)
(*   backend/api/routes/erp_sync.py          (the /api/erp-sync routes)    *)
(*                                                                         *)
(* A column name is a sequence of symbols: one-character strings for the   *)
(* ASCII characters and one romanised symbol such as "<jeon>" for each     *)
(* Hangul syllable (the module is ASCII; the comments give the Hangul).    *)
(* str.strip, str.lower and str.replace are computed on these sequences.   *)
(*                                                                         *)
(* Amounts are integers counted in a fixed quantum.  A column is either    *)
(* int64 (exact arithmetic) or float64; float64 results are rounded to     *)
(* MantissaBits significant bits, round-half-to-even, as IEEE-754 does     *)
(* with 53 bits.                                                           *)
(***************************************************************************)
EXTENDS Integers, Sequences, FiniteSets, TLC

VARIABLES
    processors,   \* erp_sync.processors: session id -> ERPDataProcessor
    request,      \* the last request handled
    response,     \* what it returned
    inflight      \* the uploads waiting at `await file.read()`, and the
                  \* store before the first of them began

vars == <<processors, request, response, inflight>>

----------------------------------------------------------------------------
\* Python string operations used by the column matching.

\* str.lower on one character (Hangul syllables have no case).
LowerChar(c) ==
    CASE c = "A" -> "a" [] c = "B" -> "b" [] c = "C" -> "c" [] c = "D" -> "d"
      [] c = "E" -> "e" [] c = "F" -> "f" [] c = "G" -> "g" [] c = "H" -> "h"
      [] c = "I" -> "i" [] c = "J" -> "j" [] c = "K" -> "k" [] c = "L" -> "l"
      [] c = "M" -> "m" [] c = "N" -> "n" [] c = "O" -> "o" [] c = "P" -> "p"
      [] c = "Q" -> "q" [] c = "R" -> "r" [] c = "S" -> "s" [] c = "T" -> "t"
      [] c = "U" -> "u" [] c = "V" -> "v" [] c = "W" -> "w" [] c = "X" -> "x"
      [] c = "Y" -> "y" [] c = "Z" -> "z"
      [] OTHER -> c

\* str.lower()
Lower(s) ==
    [i \in 1..Len(s) |-> LowerChar(s[i])]

RECURSIVE LStrip(_)
LStrip(s) ==
    IF s # <<>> /\ Head(s) = " " THEN LStrip(Tail(s)) ELSE s

RECURSIVE RStrip(_)
RStrip(s) ==
    IF s # <<>> /\ s[Len(s)] = " " THEN RStrip(SubSeq(s, 1, Len(s) - 1)) ELSE s

\* str.strip()
Strip(s) ==
    RStrip(LStrip(s))

\* str.replace(ch, '')
RemoveChar(s, ch) ==
    SelectSeq(s, LAMBDA c : c # ch)

\* str(col).strip().lower().replace(' ', '').replace('_', '')
NormalizeName(s) ==
    RemoveChar(RemoveChar(Lower(Strip(s)), " "), "_")

----------------------------------------------------------------------------
\* Canonical column names (Hangul syllables are written as one romanised symbol each).
\* 전표일자
K_JeonPyoIlJa ==
    <<"<jeon>", "<pyo>", "<il>", "<ja>">>
\* 거래처명
K_GeoRaeCheoMyeong ==
    <<"<geo>", "<rae>", "<cheo>", "<myeong>">>
\* 제품명
K_JePumMyeong ==
    <<"<je>", "<pum>", "<myeong>">>
\* 수량
K_SuRyang ==
    <<"<su>", "<ryang>">>
\* 원화환산액
K_WonHwaHwanSanAeg ==
    <<"<won>", "<hwa>", "<hwan>", "<san>", "<aeg>">>
\* 공급업체명
K_GongGeubEobCheMyeong ==
    <<"<gong>", "<geub>", "<eob>", "<che>", "<myeong>">>
\* 품목명
K_PumMogMyeong ==
    <<"<pum>", "<mog>", "<myeong>">>
\* 공급가액
K_GongGeubGaAeg ==
    <<"<gong>", "<geub>", "<ga>", "<aeg>">>
\* 부서
K_BuSeo ==
    <<"<bu>", "<seo>">>
\* 기본급
K_GiBonGeub ==
    <<"<gi>", "<bon>", "<geub>">>
\* 지급총액
K_JiGeubChongAeg ==
    <<"<ji>", "<geub>", "<chong>", "<aeg>">>
\* 원가구분
K_WonGaGuBun ==
    <<"<won>", "<ga>", "<gu>", "<bun>">>
\* 계정과목
K_GyeJeongGwaMog ==
    <<"<gye>", "<jeong>", "<gwa>", "<mog>">>
\* 차변금액
K_ChaByeonGeumAeg ==
    <<"<cha>", "<byeon>", "<geum>", "<aeg>">>
\* 품목분류
K_PumMogBunRyu ==
    <<"<pum>", "<mog>", "<bun>", "<ryu>">>
\* 기초금액
K_GiChoGeumAeg ==
    <<"<gi>", "<cho>", "<geum>", "<aeg>">>
\* 기말금액
K_GiMalGeumAeg ==
    <<"<gi>", "<mal>", "<geum>", "<aeg>">>
\* 제품구분
K_JePumGuBun ==
    <<"<je>", "<pum>", "<gu>", "<bun>">>
\* 수출/내수
K_SuChul_NaeSu ==
    <<"<su>", "<chul>", "/", "<nae>", "<su>">>

\* _get_required_columns: columns_map (lines 188-195).
RequiredColumnsMap(data_type) ==
    CASE data_type = "sales" ->
        <<K_JeonPyoIlJa, K_GeoRaeCheoMyeong, K_JePumMyeong, K_SuRyang, K_WonHwaHwanSanAeg>>
      [] data_type = "purchases" ->
        <<K_JeonPyoIlJa, K_GongGeubEobCheMyeong, K_PumMogMyeong, K_SuRyang, K_GongGeubGaAeg>>
      [] data_type = "payroll" ->
        <<K_BuSeo, K_GiBonGeub, K_JiGeubChongAeg, K_WonGaGuBun>>
      [] data_type = "mfg_expenses" ->
        <<K_JeonPyoIlJa, K_GyeJeongGwaMog, K_ChaByeonGeumAeg>>
      [] data_type = "inventory" ->
        <<K_PumMogMyeong, K_PumMogBunRyu, K_GiChoGeumAeg, K_GiMalGeumAeg>>
      [] data_type = "sg_expenses" ->
        <<K_JeonPyoIlJa, K_GyeJeongGwaMog, K_ChaByeonGeumAeg>>
      [] OTHER -> <<>>

\* _find_alternative_column: synonyms (lines 146-172).
SynonymsOf(required_col) ==
    \* 전표일자: 일자, 날짜, 거래일, 매출일자, 판매일, Date, BUDAT, date, 작성일
    CASE required_col = K_JeonPyoIlJa ->
        << <<"<il>", "<ja>">>,
           <<"<nal>", "<jja>">>,
           <<"<geo>", "<rae>", "<il>">>,
           <<"<mae>", "<chul>", "<il>", "<ja>">>,
           <<"<pan>", "<mae>", "<il>">>,
           <<"D", "a", "t", "e">>,
           <<"B", "U", "D", "A", "T">>,
           <<"d", "a", "t", "e">>,
           <<"<jag>", "<seong>", "<il>">> >>
    \* 거래처명: 고객명, 거래처, 바이어, Customer, Customer Name, KUNNR, customer, 매출처, 거래선명
      [] required_col = K_GeoRaeCheoMyeong ->
        << <<"<go>", "<gaeg>", "<myeong>">>,
           <<"<geo>", "<rae>", "<cheo>">>,
           <<"<ba>", "<i>", "<eo>">>,
           <<"C", "u", "s", "t", "o", "m", "e", "r">>,
           <<"C", "u", "s", "t", "o", "m", "e", "r", " ", "N", "a", "m", "e">>,
           <<"K", "U", "N", "N", "R">>,
           <<"c", "u", "s", "t", "o", "m", "e", "r">>,
           <<"<mae>", "<chul>", "<cheo>">>,
           <<"<geo>", "<rae>", "<seon>", "<myeong>">> >>
    \* 제품명: 품목명, 상품명, 품명, Product, Product Name, Material, MATNR, 제품
      [] required_col = K_JePumMyeong ->
        << <<"<pum>", "<mog>", "<myeong>">>,
           <<"<sang>", "<pum>", "<myeong>">>,
           <<"<pum>", "<myeong>">>,
           <<"P", "r", "o", "d", "u", "c", "t">>,
           <<"P", "r", "o", "d", "u", "c", "t", " ", "N", "a", "m", "e">>,
           <<"M", "a", "t", "e", "r", "i", "a", "l">>,
           <<"M", "A", "T", "N", "R">>,
           <<"<je>", "<pum>">> >>
    \* 수량: 판매수량, Quantity, QTY, qty, 매출수량, FKIMG, 판매량, 입고QTY, 입고수량, 매입수량
      [] required_col = K_SuRyang ->
        << <<"<pan>", "<mae>", "<su>", "<ryang>">>,
           <<"Q", "u", "a", "n", "t", "i", "t", "y">>,
           <<"Q", "T", "Y">>,
           <<"q", "t", "y">>,
           <<"<mae>", "<chul>", "<su>", "<ryang>">>,
           <<"F", "K", "I", "M", "G">>,
           <<"<pan>", "<mae>", "<ryang>">>,
           <<"<ib>", "<go>", "Q", "T", "Y">>,
           <<"<ib>", "<go>", "<su>", "<ryang>">>,
           <<"<mae>", "<ib>", "<su>", "<ryang>">> >>
    \* 원화환산액: 매출금액, 금액, 원화금액, Amount, NETWR, 매출액, 원화매출, 판매금액, DMBTR, Local Amount
      [] required_col = K_WonHwaHwanSanAeg ->
        << <<"<mae>", "<chul>", "<geum>", "<aeg>">>,
           <<"<geum>", "<aeg>">>,
           <<"<won>", "<hwa>", "<geum>", "<aeg>">>,
           <<"A", "m", "o", "u", "n", "t">>,
           <<"N", "E", "T", "W", "R">>,
           <<"<mae>", "<chul>", "<aeg>">>,
           <<"<won>", "<hwa>", "<mae>", "<chul>">>,
           <<"<pan>", "<mae>", "<geum>", "<aeg>">>,
           <<"D", "M", "B", "T", "R">>,
           <<"L", "o", "c", "a", "l", " ", "A", "m", "o", "u", "n", "t">> >>
    \* 공급업체명: 거래처명, 공급처, 업체명, Vendor, Supplier, LIFNR, 매입처
      [] required_col = K_GongGeubEobCheMyeong ->
        << <<"<geo>", "<rae>", "<cheo>", "<myeong>">>,
           <<"<gong>", "<geub>", "<cheo>">>,
           <<"<eob>", "<che>", "<myeong>">>,
           <<"V", "e", "n", "d", "o", "r">>,
           <<"S", "u", "p", "p", "l", "i", "e", "r">>,
           <<"L", "I", "F", "N", "R">>,
           <<"<mae>", "<ib>", "<cheo>">> >>
    \* 품목명: 제품명, 상품명, 품명, Material, Product, 원자재명
      [] required_col = K_PumMogMyeong ->
        << <<"<je>", "<pum>", "<myeong>">>,
           <<"<sang>", "<pum>", "<myeong>">>,
           <<"<pum>", "<myeong>">>,
           <<"M", "a", "t", "e", "r", "i", "a", "l">>,
           <<"P", "r", "o", "d", "u", "c", "t">>,
           <<"<won>", "<ja>", "<jae>", "<myeong>">> >>
    \* 공급가액: 매입금액, 금액, Amount, NETWR, 공급가, 구매금액, 매입가액, Purchase Amount
      [] required_col = K_GongGeubGaAeg ->
        << <<"<mae>", "<ib>", "<geum>", "<aeg>">>,
           <<"<geum>", "<aeg>">>,
           <<"A", "m", "o", "u", "n", "t">>,
           <<"N", "E", "T", "W", "R">>,
           <<"<gong>", "<geub>", "<ga>">>,
           <<"<gu>", "<mae>", "<geum>", "<aeg>">>,
           <<"<mae>", "<ib>", "<ga>", "<aeg>">>,
           <<"P", "u", "r", "c", "h", "a", "s", "e", " ", "A", "m", "o", "u", "n", "t">> >>
    \* 부서: 소속부서, 부서명, Department, Dept, 소속
      [] required_col = K_BuSeo ->
        << <<"<so>", "<sog>", "<bu>", "<seo>">>,
           <<"<bu>", "<seo>", "<myeong>">>,
           <<"D", "e", "p", "a", "r", "t", "m", "e", "n", "t">>,
           <<"D", "e", "p", "t">>,
           <<"<so>", "<sog>">> >>
    \* 기본급: 급여, 월급, Base Salary, 기본월급
      [] required_col = K_GiBonGeub ->
        << <<"<geub>", "<yeo>">>,
           <<"<wol>", "<geub>">>,
           <<"B", "a", "s", "e", " ", "S", "a", "l", "a", "r", "y">>,
           <<"<gi>", "<bon>", "<wol>", "<geub>">> >>
    \* 지급총액: 총지급액, 급여총액, Total Pay, 총급여
      [] required_col = K_JiGeubChongAeg ->
        << <<"<chong>", "<ji>", "<geub>", "<aeg>">>,
           <<"<geub>", "<yeo>", "<chong>", "<aeg>">>,
           <<"T", "o", "t", "a", "l", " ", "P", "a", "y">>,
           <<"<chong>", "<geub>", "<yeo>">> >>
    \* 원가구분: 노무비구분, 급여구분, 구분
      [] required_col = K_WonGaGuBun ->
        << <<"<no>", "<mu>", "<bi>", "<gu>", "<bun>">>,
           <<"<geub>", "<yeo>", "<gu>", "<bun>">>,
           <<"<gu>", "<bun>">> >>
    \* 계정과목: 계정, 비용항목, Account, 경비항목
      [] required_col = K_GyeJeongGwaMog ->
        << <<"<gye>", "<jeong>">>,
           <<"<bi>", "<yong>", "<hang>", "<mog>">>,
           <<"A", "c", "c", "o", "u", "n", "t">>,
           <<"<gyeong>", "<bi>", "<hang>", "<mog>">> >>
    \* 차변금액: 금액, 지출금액, Debit, 발생금액, 비용금액
      [] required_col = K_ChaByeonGeumAeg ->
        << <<"<geum>", "<aeg>">>,
           <<"<ji>", "<chul>", "<geum>", "<aeg>">>,
           <<"D", "e", "b", "i", "t">>,
           <<"<bal>", "<saeng>", "<geum>", "<aeg>">>,
           <<"<bi>", "<yong>", "<geum>", "<aeg>">> >>
    \* 품목분류: 분류, 재고구분, Category, 품목구분
      [] required_col = K_PumMogBunRyu ->
        << <<"<bun>", "<ryu>">>,
           <<"<jae>", "<go>", "<gu>", "<bun>">>,
           <<"C", "a", "t", "e", "g", "o", "r", "y">>,
           <<"<pum>", "<mog>", "<gu>", "<bun>">> >>
    \* 기초금액: 기초재고금액, 기초재고, Opening, 월초금액
      [] required_col = K_GiChoGeumAeg ->
        << <<"<gi>", "<cho>", "<jae>", "<go>", "<geum>", "<aeg>">>,
           <<"<gi>", "<cho>", "<jae>", "<go>">>,
           <<"O", "p", "e", "n", "i", "n", "g">>,
           <<"<wol>", "<cho>", "<geum>", "<aeg>">> >>
    \* 기말금액: 기말재고금액, 기말재고, Closing, 월말금액
      [] required_col = K_GiMalGeumAeg ->
        << <<"<gi>", "<mal>", "<jae>", "<go>", "<geum>", "<aeg>">>,
           <<"<gi>", "<mal>", "<jae>", "<go>">>,
           <<"C", "l", "o", "s", "i", "n", "g">>,
           <<"<wol>", "<mal>", "<geum>", "<aeg>">> >>
    \* 제품구분: 제품분류, 품목구분, 제품군, 제품카테고리, Product Category, Category, 용도구분, 용도
      [] required_col = K_JePumGuBun ->
        << <<"<je>", "<pum>", "<bun>", "<ryu>">>,
           <<"<pum>", "<mog>", "<gu>", "<bun>">>,
           <<"<je>", "<pum>", "<gun>">>,
           <<"<je>", "<pum>", "<ka>", "<te>", "<go>", "<ri>">>,
           <<"P", "r", "o", "d", "u", "c", "t", " ", "C", "a", "t", "e", "g", "o", "r", "y">>,
           <<"C", "a", "t", "e", "g", "o", "r", "y">>,
           <<"<yong>", "<do>", "<gu>", "<bun>">>,
           <<"<yong>", "<do>">> >>
    \* 수출/내수: 수출내수, 내수수출, 수출구분, Export/Domestic, 구분
      [] required_col = K_SuChul_NaeSu ->
        << <<"<su>", "<chul>", "<nae>", "<su>">>,
           <<"<nae>", "<su>", "<su>", "<chul>">>,
           <<"<su>", "<chul>", "<gu>", "<bun>">>,
           <<"E", "x", "p", "o", "r", "t", "/", "D", "o", "m", "e", "s", "t", "i", "c">>,
           <<"<gu>", "<bun>">> >>
      [] OTHER -> <<>>

----------------------------------------------------------------------------
\* Cell values the synthesizer compares with.
\* 수출, 내수
ExportFlag == "<su><chul>"
DomesticFlag == "<nae><su>"
\* 직접노무비, 간접노무비
DirectLaborFlag == "<jig><jeob><no><mu><bi>"
IndirectLaborFlag == "<gan><jeob><no><mu><bi>"
\* 원재료, 제품, 재공품
RawMaterialClass == "<won><jae><ryo>"
ProductClass == "<je><pum>"
WorkInProgressClass == "<jae><gong><pum>"

\* 입고금액, 출고금액
K_IbGoGeumAeg ==
    <<"<ib>", "<go>", "<geum>", "<aeg>">>
K_ChulGoGeumAeg ==
    <<"<chul>", "<go>", "<geum>", "<aeg>">>


\* Session ids a client may name (a fresh uuid4 is one not yet in use).
SessionIds ==
    {"s1"}

\* session_id omitted from the form.
NoSessionId == ""


----------------------------------------------------------------------------
\* ERPDataProcessor.load_excel

\* A data frame: column labels, rows (each a sequence of cells aligned with
\* the labels) and the dtype of its numeric columns.
DataFrame(columns, rows, dtype) ==
    [columns |-> columns, rows |-> rows, dtype |-> dtype]

\* The value None of an empty slot of ERPDataProcessor.data.
None ==
    [isnone |-> TRUE]

\* The six slots of ERPDataProcessor.data, in the dict's insertion order.
DataTypeOrder ==
    <<"sales", "purchases", "payroll", "mfg_expenses", "inventory", "sg_expenses">>

DataTypes ==
    {DataTypeOrder[i] : i \in 1..Len(DataTypeOrder)}

\* ERPDataProcessor.__init__
NewProcessor ==
    [data |-> [t \in DataTypes |-> None], errors |-> <<>>, warnings |-> <<>>]

InSeq(x, s) ==
    \E i \in 1..Len(s) : s[i] = x

\* A faulty rename that leaves the labels as they are (df.rename without
\* taking its result).
RenameNothing(columns, old, new) ==
    columns

\* df.rename(columns={old: new}): every label equal to old is replaced.
RenameColumn(columns, old, new) ==
    [i \in 1..Len(columns) |-> IF columns[i] = old THEN new ELSE columns[i]]

\* The caller-supplied mapping {} of "no mapping" (None and {} are both falsy).
NoMapping ==
    <<>>

\* load_excel, lines 71-81: the labels after the caller's column mapping.
ApplyColumnMapping(columns, column_mapping) ==
    IF DOMAIN column_mapping = {}
    THEN columns
    ELSE [i \in 1..Len(columns) |->
            IF Strip(columns[i]) \in DOMAIN column_mapping
            THEN column_mapping[Strip(columns[i])]
            ELSE columns[i]]

\* Index of the first label whose normalised form equals that of req_col, or 0.
NormalizedMatchIndex(columns, req_col) ==
    LET hits == {i \in 1..Len(columns) :
                    NormalizeName(columns[i]) = NormalizeName(req_col)}
    IN  IF hits = {} THEN 0 ELSE CHOOSE i \in hits : \A j \in hits : i <= j

\* The test of the inner loop of _find_alternative_column.
IsAlternative(col, alts) ==
    \E k \in 1..Len(alts) :
        \/ Strip(col) = alts[k]
        \/ Lower(Strip(col)) = Lower(alts[k])

\* A faulty _find_alternative_column that never finds a synonym.
FindNoAlternative(required_col, available_cols, data_type) ==
    0

\* _find_alternative_column: index of the first available label that is a
\* synonym of required_col, or 0 for None.
FindAlternativeColumn(required_col, available_cols, data_type) ==
    LET alts == SynonymsOf(required_col)
        hits == {i \in 1..Len(available_cols) : IsAlternative(available_cols[i], alts)}
    IN  IF hits = {} THEN 0 ELSE CHOOSE i \in hits : \A j \in hits : i <= j

\* Lines 93-111: req_col is not a label as it stands; n is the index of
\* the normalised match and a that of the alternative (0 for none).
RenameOrMiss(acc, req_col, n, a) ==
    IF n # 0
    THEN [acc EXCEPT !.columns = RenameColumn(acc.columns, acc.columns[n], req_col)]
    ELSE IF a # 0
    THEN [acc EXCEPT !.columns = RenameColumn(acc.columns, acc.columns[a], req_col)]
    ELSE [acc EXCEPT !.missing = Append(acc.missing, req_col)]

\* One iteration of the loop over required_columns (lines 87-111).
ResolveStep(acc, req_col, data_type) ==
    IF InSeq(req_col, acc.columns)
    THEN acc
    ELSE RenameOrMiss(acc, req_col,
                      NormalizedMatchIndex(acc.columns, req_col),
                      FindAlternativeColumn(req_col, acc.columns, data_type))

RECURSIVE ResolveFrom(_, _, _, _)
ResolveFrom(acc, required_columns, i, data_type) ==
    IF i > Len(required_columns)
    THEN acc
    ELSE ResolveFrom(ResolveStep(acc, required_columns[i], data_type),
                     required_columns, i + 1, data_type)

\* _get_required_columns
GetRequiredColumns(data_type) ==
    RequiredColumnsMap(data_type)

\* The loop of lines 84-111: the renamed labels and the list `missing`.
ResolveRequired(columns, data_type) ==
    ResolveFrom([columns |-> columns, missing |-> <<>>],
                GetRequiredColumns(data_type), 1, data_type)


----------------------------------------------------------------------------
\* Numbers.  A number is [v, float]: an int64 (or Python int) value is
\* exact, a float64 value is always one that MantissaBits bits can hold.

\* Significant bits of a float64, scaled down from the 53 of IEEE-754 so
\* that rounding happens within the integers the model enumerates.
MantissaBits == 10

RECURSIVE Pow2(_)
Pow2(n) ==
    IF n = 0 THEN 1 ELSE 2 * Pow2(n - 1)

RECURSIVE BitLength(_)
BitLength(n) ==
    IF n = 0 THEN 0 ELSE 1 + BitLength(n \div 2)

\* The multiple of q nearest to n, ties to the even multiple.
RoundToQuantum(n, q) ==
    LET lo == (n \div q) * q
    IN  IF 2 * (n - lo) < q THEN lo
        ELSE IF 2 * (n - lo) > q THEN lo + q
        ELSE IF (n \div q) % 2 = 0 THEN lo ELSE lo + q

\* The nearest value with MantissaBits significant bits, ties to even.
RoundMagnitude(n) ==
    IF n < Pow2(MantissaBits)
    THEN n
    ELSE RoundToQuantum(n, Pow2(BitLength(n) - MantissaBits))

\* float(x) of an exact value x.
RoundToFloat(x) ==
    IF x < 0 THEN 0 - RoundMagnitude(0 - x) ELSE RoundMagnitude(x)

Num(v, isfloat) ==
    [v |-> v, float |-> isfloat]

\* The Python int 0 the synthesizer uses for an absent dataset.
Zero ==
    Num(0, FALSE)

\* An operand as the operation sees it: an integer meeting a float is
\* converted to float first.
Operand(a, isfloat) ==
    IF isfloat /\ ~a.float THEN RoundToFloat(a.v) ELSE a.v

\* The result of an operation whose exact value is v: rounded when the
\* operation is a float64 one.
FromExact(v, isfloat) ==
    Num(IF isfloat THEN RoundToFloat(v) ELSE v, isfloat)

\* a + b
NAdd(a, b) ==
    FromExact(Operand(a, a.float \/ b.float) + Operand(b, a.float \/ b.float),
              a.float \/ b.float)

\* a - b
NSub(a, b) ==
    FromExact(Operand(a, a.float \/ b.float) - Operand(b, a.float \/ b.float),
              a.float \/ b.float)

\* -a
NNeg(a) ==
    Num(0 - a.v, a.float)

\* sanitize_for_json on a number: numpy integers and floats become float.
SanitizeNumber(a) ==
    RoundToFloat(a.v)

\* round(x / total * 100, 2), in hundredths of a percent (ties to even).
RatioPercent(x, total) ==
    LET n == x * 10000
        q == n \div total
        r == n - q * total
    IN  IF 2 * r < total THEN q
        ELSE IF 2 * r > total THEN q + 1
        ELSE IF q % 2 = 0 THEN q ELSE q + 1


----------------------------------------------------------------------------
\* The uploads the model enumerates.  A file is what pd.read_excel finds:
\* [ext, readable, columns, rows, dtype].  Int64 amounts are in units of
\* 10,000 won.

ExcelFile(columns, rows, dtype) ==
    [ext |-> ".xlsx", readable |-> TRUE, columns |-> columns, rows |-> rows,
     dtype |-> dtype]

\* How a file may label a required column: by its canonical name, by the
\* first synonym of the dictionary, or by the canonical name with spaces
\* and an underscore around and inside it.
HeaderStyles ==
    {"canonical", "synonym", "padded"}

Observe(req_col, style) ==
    CASE style = "canonical" -> req_col
      [] style = "synonym" -> SynonymsOf(req_col)[1]
      [] style = "padded" -> <<" ", Head(req_col), "_">> \o Tail(req_col) \o <<" ">>

ObservedHeader(data_type, style) ==
    LET req == GetRequiredColumns(data_type)
    IN  [i \in 1..Len(req) |-> Observe(req[i], style)]

\* A sales export with English labels in another case than the dictionary's:
\* DATE, customer name, PRODUCT, qty, AMOUNT
EnglishSalesHeader ==
    << <<"D", "A", "T", "E">>,
       <<"c", "u", "s", "t", "o", "m", "e", "r", " ", "n", "a", "m", "e">>,
       <<"P", "R", "O", "D", "U", "C", "T">>,
       <<"q", "t", "y">>,
       <<"A", "M", "O", "U", "N", "T">> >>

\* A label no rule resolves: "Unnamed: 9"
UnknownLabel ==
    <<"U", "n", "n", "a", "m", "e", "d", ":", " ", "9">>

\* Rows in the order of the required columns of their type.
SalesRow(amount) ==
    <<"2025-01-15", "customer", "product", 1, amount>>
PurchaseRow(amount) ==
    <<"2025-01-10", "supplier", "item", 1, amount>>
PayrollRow(amount, flag) ==
    <<"dept", amount, amount, flag>>
ExpenseRow(amount) ==
    <<"2025-01-31", "account", amount>>
InventoryRow(class, beginning, ending) ==
    <<"item", class, beginning, ending>>

\* The content of a file apart from its required labels: labels and cells
\* of further columns come after the required ones.
Dataset(extra, rows, dtype) ==
    [extra |-> extra, rows |-> rows, dtype |-> dtype]

\* The end-to-end scenario: revenue 100 (60 export, 40 domestic),
\* purchases 40, direct labour 15, indirect labour 5, overhead 10,
\* raw material 5 -> 7, SG&A 8.
ScenarioDataset(data_type) ==
    CASE data_type = "sales" ->
            Dataset(<<K_SuChul_NaeSu>>,
                    <<SalesRow(60) \o <<ExportFlag>>, SalesRow(40) \o <<DomesticFlag>>>>,
                    "int64")
      [] data_type = "purchases" ->
            Dataset(<<>>, <<PurchaseRow(40)>>, "int64")
      [] data_type = "payroll" ->
            Dataset(<<>>, <<PayrollRow(15, DirectLaborFlag),
                            PayrollRow(5, IndirectLaborFlag)>>, "int64")
      [] data_type = "mfg_expenses" ->
            Dataset(<<>>, <<ExpenseRow(10)>>, "int64")
      [] data_type = "inventory" ->
            Dataset(<<K_IbGoGeumAeg, K_ChulGoGeumAeg>>,
                    <<InventoryRow(RawMaterialClass, 5, 7) \o <<0, 0>>>>, "int64")
      [] data_type = "sg_expenses" ->
            Dataset(<<>>, <<ExpenseRow(8)>>, "int64")

\* A second content per type: other amounts, a payroll row whose flag is
\* neither direct nor indirect, an inventory sheet without the in/out
\* amount columns.
OtherDataset(data_type) ==
    CASE data_type = "sales" ->
            Dataset(<<>>, <<SalesRow(7)>>, "int64")
      [] data_type = "purchases" ->
            Dataset(<<>>, <<PurchaseRow(3), PurchaseRow(5)>>, "int64")
      [] data_type = "payroll" ->
            Dataset(<<>>, <<PayrollRow(4, DirectLaborFlag), PayrollRow(2, "other")>>,
                    "int64")
      [] data_type = "mfg_expenses" ->
            Dataset(<<>>, <<ExpenseRow(1), ExpenseRow(2)>>, "int64")
      [] data_type = "inventory" ->
            Dataset(<<>>, <<InventoryRow(RawMaterialClass, 5, 7)>>, "int64")
      [] data_type = "sg_expenses" ->
            Dataset(<<>>, <<ExpenseRow(3)>>, "int64")

\* Work-in-progress and finished-goods stock that changes over the month.
MovingInventory ==
    Dataset(<<K_IbGoGeumAeg, K_ChulGoGeumAeg>>,
            << InventoryRow(RawMaterialClass, 2, 1) \o <<0, 0>>,
               InventoryRow(WorkInProgressClass, 1, 4) \o <<0, 0>>,
               InventoryRow(ProductClass, 6, 2) \o <<0, 0>> >>, "int64")

\* Work in progress drawn down while finished goods are built up.
DrainedInventory ==
    Dataset(<<K_IbGoGeumAeg, K_ChulGoGeumAeg>>,
            << InventoryRow(RawMaterialClass, 1, 1) \o <<0, 0>>,
               InventoryRow(WorkInProgressClass, 4, 0) \o <<0, 0>>,
               InventoryRow(ProductClass, 0, 2) \o <<0, 0>> >>, "int64")

\* Fractional amounts (float64 columns), in units of the float quantum: a
\* small revenue against a purchase total of MantissaBits + 1 bits.
FloatSales ==
    Dataset(<<>>, <<SalesRow(1)>>, "float64")
FloatPurchases ==
    Dataset(<<>>, <<PurchaseRow(Pow2(MantissaBits + 1) - 2)>>, "float64")

\* Sales whose total is not positive: a sale and its return, a refund alone.
ReturnedSales ==
    Dataset(<<>>, <<SalesRow(3), SalesRow(0 - 3)>>, "int64")
RefundSales ==
    Dataset(<<>>, <<SalesRow(0 - 2)>>, "int64")

BuildFile(data_type, header, ds) ==
    ExcelFile(header \o ds.extra, ds.rows, ds.dtype)

\* s without its i-th element.
DropAt(s, i) ==
    SubSeq(s, 1, i - 1) \o SubSeq(s, i + 1, Len(s))

\* The file without its i-th column.
DropColumn(file, i) ==
    [file EXCEPT !.columns = DropAt(file.columns, i),
                 !.rows = [r \in 1..Len(file.rows) |-> DropAt(file.rows[r], i)]]

\* The file with its i-th column labelled `label`.
RelabelColumn(file, i, label) ==
    [file EXCEPT !.columns[i] = label]

\* Caller-supplied mappings: one that names the unknown label as the last
\* required column of the type, one that renames the first required column
\* away.
FixMapping(data_type) ==
    LET req == GetRequiredColumns(data_type)
    IN  [n \in {UnknownLabel} |-> req[Len(req)]]

HarmfulMapping(data_type) ==
    LET req == GetRequiredColumns(data_type)
    IN  [n \in {req[1]} |-> UnknownLabel]

UploadInput(session_id, data_type, file, column_mapping) ==
    [session_id |-> session_id, data_type |-> data_type, file |-> file,
     column_mapping |-> column_mapping]

CanonicalFile(data_type, ds) ==
    BuildFile(data_type, ObservedHeader(data_type, "canonical"), ds)

\* Files of one type that differ in labels, and their mappings: every type
\* is uploaded under its canonical labels, under synonyms, with a required
\* column left out, and with an unknown label that a mapping names.
LabelledUploads(data_type) ==
    LET req == GetRequiredColumns(data_type)
        canonical == CanonicalFile(data_type, ScenarioDataset(data_type))
        synonym == BuildFile(data_type, ObservedHeader(data_type, "synonym"),
                             ScenarioDataset(data_type))
        unknown == RelabelColumn(canonical, Len(req), UnknownLabel)
    IN  {<<canonical, NoMapping>>, <<synonym, NoMapping>>,
         <<DropColumn(synonym, Len(req)), NoMapping>>,
         <<unknown, FixMapping(data_type)>>}

\* Further sales files: padded and English labels, another content, each
\* single column and two columns left out, an unknown label without a
\* mapping, a mapping that renames a required column away, no rows, an
\* unreadable workbook, another extension.
SalesUploads ==
    LET req == GetRequiredColumns("sales")
        canonical == CanonicalFile("sales", ScenarioDataset("sales"))
        synonym == BuildFile("sales", ObservedHeader("sales", "synonym"),
                             ScenarioDataset("sales"))
    IN  {<<BuildFile("sales", ObservedHeader("sales", "padded"),
                     ScenarioDataset("sales")), NoMapping>>,
         <<BuildFile("sales", EnglishSalesHeader, OtherDataset("sales")), NoMapping>>,
         <<CanonicalFile("sales", OtherDataset("sales")), NoMapping>>,
         <<DropColumn(DropColumn(synonym, 4), 2), NoMapping>>,
         <<RelabelColumn(canonical, Len(req), UnknownLabel), NoMapping>>,
         <<canonical, HarmfulMapping("sales")>>,
         <<[canonical EXCEPT !.rows = <<>>], NoMapping>>,
         <<[canonical EXCEPT !.readable = FALSE], NoMapping>>,
         <<[canonical EXCEPT !.ext = ".csv"], NoMapping>>}
        \cup {<<DropColumn(synonym, i), NoMapping>> : i \in 1..(Len(req) - 1)}

\* Files with canonical labels that differ in amounts.
AmountDatasets(data_type) ==
    {ScenarioDataset(data_type)}
    \cup (CASE data_type = "sales" -> {FloatSales}
            [] data_type = "purchases" -> {FloatPurchases}
            [] data_type = "payroll" -> {OtherDataset(data_type)}
            [] data_type = "inventory" -> {MovingInventory, OtherDataset(data_type)}
            [] OTHER -> {})

SessionChoices ==
    SessionIds \cup {NoSessionId}

\* The uploads of the session-store specification: every labelling of
\* every type, and one request that names no valid type.
StoreUploads ==
    UNION {{UploadInput(sid, t, fm[1], fm[2]) :
                sid \in SessionChoices, fm \in LabelledUploads(t)} : t \in DataTypes}
    \cup {UploadInput(sid, "sales", fm[1], fm[2]) :
                sid \in SessionChoices, fm \in SalesUploads}
    \cup {UploadInput(sid, "budget", CanonicalFile("sales", ScenarioDataset("sales")),
                      NoMapping) : sid \in SessionChoices}

\* The uploads of the synthesis specification: canonical labels, every
\* content of every type.
AmountUploads ==
    UNION {{UploadInput(sid, t, CanonicalFile(t, ds), NoMapping) :
                sid \in SessionChoices, ds \in AmountDatasets(t)} : t \in DataTypes}

OptionalTypes ==
    {"payroll", "mfg_expenses", "inventory", "sg_expenses"}

\* files_map of quick_generate: sales and purchases are always given, each
\* optional file is given or None.
QuickFiles(sales_file, purchases_file, given, inventory_ds) ==
    [t \in DataTypes |->
        CASE t = "sales" -> sales_file
          [] t = "purchases" -> purchases_file
          [] t = "inventory" ->
                IF t \in given THEN CanonicalFile(t, inventory_ds) ELSE None
          [] OTHER ->
                IF t \in given THEN CanonicalFile(t, ScenarioDataset(t)) ELSE None]

StoreQuickFiles ==
    LET sales == CanonicalFile("sales", ScenarioDataset("sales"))
        purchases == CanonicalFile("purchases", ScenarioDataset("purchases"))
    IN  {QuickFiles(s, purchases, given, ScenarioDataset("inventory")) :
            s \in {sales, DropColumn(sales, 4)}, given \in {{}, OptionalTypes}}
        \cup {QuickFiles(sales, purchases, {"inventory"}, OtherDataset("inventory"))}

AmountQuickFiles ==
    {QuickFiles(CanonicalFile("sales", s), CanonicalFile("purchases", p), given,
                ScenarioDataset("inventory")) :
        s \in AmountDatasets("sales"), p \in AmountDatasets("purchases"),
        given \in {{}, OptionalTypes}}

\* The files of the statement specification: every choice of the optional
\* files; revenues that are positive, zero and negative and one that does
\* not divide the amounts; inventory changes of both signs.
StatementSales ==
    AmountDatasets("sales") \cup {OtherDataset("sales"), ReturnedSales, RefundSales}

StatementInventories ==
    AmountDatasets("inventory") \cup {DrainedInventory}

StatementQuickFiles ==
    {QuickFiles(CanonicalFile("sales", s), CanonicalFile("purchases", p), given, inv) :
        s \in StatementSales, p \in AmountDatasets("purchases"),
        given \in SUBSET OptionalTypes, inv \in StatementInventories}


----------------------------------------------------------------------------
\* ResolveRequired on the label lists of the enumerated uploads, evaluated
\* once (the model checker keeps the table; the values are ResolveRequired's).
ResolveKeys ==
    {<<ApplyColumnMapping(i.file.columns, i.column_mapping), i.data_type>> :
        i \in StoreUploads \cup AmountUploads}
    \cup UNION {{<<f[t].columns, t>> : t \in {u \in DataTypes : f[u] # None}} :
                    f \in StoreQuickFiles \cup AmountQuickFiles}

ResolveTable ==
    [k \in ResolveKeys |-> ResolveRequired(k[1], k[2])]

ResolveRequiredOnce(columns, data_type) ==
    IF <<columns, data_type>> \in ResolveKeys
    THEN ResolveTable[<<columns, data_type>>]
    ELSE ResolveRequired(columns, data_type)

\* df.empty
IsEmptyFrame(file) ==
    Len(file.rows) = 0 \/ Len(file.columns) = 0

\* load_excel: the result dict and the processor's data afterwards.  A file
\* pd.read_excel cannot read raises, which the except clause turns into a
\* failure result.  (The preview rows of a success are not modelled.)
LoadResult(success, error, missing, has_found, found_columns, data_type, rows, columns) ==
    [success |-> success, error |-> error, missing |-> missing,
     has_found_columns |-> has_found, found_columns |-> found_columns,
     data_type |-> data_type, rows |-> rows, columns |-> columns]

\* A faulty load_excel that assigns self.data[data_type] before it looks at
\* `missing`.
StoreBeforeCheck(data, file, data_type, r) ==
    [data |-> [data EXCEPT ![data_type] = DataFrame(r.columns, file.rows, file.dtype)],
     result |->
        IF r.missing # <<>>
        THEN LoadResult(FALSE, "missing_columns", r.missing, TRUE, r.columns,
                        data_type, 0, <<>>)
        ELSE LoadResult(TRUE, "", <<>>, FALSE, <<>>, data_type, Len(file.rows),
                        r.columns)]

\* A faulty load_excel that appends the new rows to the frame already held.
StoreMerged(data, file, data_type, r) ==
    IF r.missing # <<>>
    THEN [data |-> data,
          result |-> LoadResult(FALSE, "missing_columns", r.missing, TRUE,
                                r.columns, data_type, 0, <<>>)]
    ELSE [data |-> [data EXCEPT ![data_type] =
                        DataFrame(r.columns,
                                  (IF data[data_type] = None
                                   THEN <<>> ELSE data[data_type].rows) \o file.rows,
                                  file.dtype)],
          result |-> LoadResult(TRUE, "", <<>>, FALSE, <<>>, data_type,
                                Len(file.rows), r.columns)]

\* Lines 113-141: r is the frame's labels and the list `missing` after the
\* loop over the required columns.
StoreResolved(data, file, data_type, r) ==
    IF r.missing # <<>>
    THEN [data |-> data,
          result |-> LoadResult(FALSE, "missing_columns", r.missing, TRUE,
                                r.columns, data_type, 0, <<>>)]
    ELSE [data |-> [data EXCEPT ![data_type] =
                        DataFrame(r.columns, file.rows, file.dtype)],
          result |-> LoadResult(TRUE, "", <<>>, FALSE, <<>>, data_type,
                                Len(file.rows), r.columns)]

LoadExcel(data, file, data_type, column_mapping) ==
    IF ~file.readable
    THEN [data |-> data,
          result |-> LoadResult(FALSE, "read_error", <<>>, FALSE, <<>>, data_type, 0, <<>>)]
    ELSE IF IsEmptyFrame(file)
    THEN [data |-> data,
          result |-> LoadResult(FALSE, "empty_file", <<>>, FALSE, <<>>, data_type, 0, <<>>)]
    ELSE StoreResolved(data, file, data_type,
                       ResolveRequiredOnce(
                           ApplyColumnMapping(file.columns, column_mapping), data_type))
----------------------------------------------------------------------------
\* ERPDataProcessor.process_*

\* Index of the column labelled `label` in df, or 0.
ColumnIndex(df, label) ==
    LET hits == {i \in 1..Len(df.columns) : df.columns[i] = label}
    IN  IF hits = {} THEN 0 ELSE CHOOSE i \in hits : \A j \in hits : i <= j

HasColumn(df, label) ==
    ColumnIndex(df, label) # 0

RECURSIVE SumFrom(_, _, _, _)
SumFrom(df, c, i, acc) ==
    IF i > Len(df.rows)
    THEN acc
    ELSE SumFrom(df, c, i + 1, NAdd(acc, Num(df.rows[i][c], df.dtype = "float64")))

\* df[label].sum()
SumColumn(df, label) ==
    SumFrom(df, ColumnIndex(df, label), 1, Num(0, df.dtype = "float64"))

\* df[df[key] == value]
FilterRows(df, key, value) ==
    [df EXCEPT !.rows = SelectSeq(df.rows, LAMBDA row : row[ColumnIndex(df, key)] = value)]

\* process_sales, line 215: 수출/내수, 수출내수, 내수수출, 수출구분, Export/Domestic, 구분
ExportDomesticLabels ==
    { K_SuChul_NaeSu,
      <<"<su>", "<chul>", "<nae>", "<su>">>,
      <<"<nae>", "<su>", "<su>", "<chul>">>,
      <<"<su>", "<chul>", "<gu>", "<bun>">>,
      <<"E", "x", "p", "o", "r", "t", "/", "D", "o", "m", "e", "s", "t", "i", "c">>,
      <<"<gu>", "<bun>">> }

\* The first label of df that names the export/domestic flag, or 0.
ExportDomesticIndex(df) ==
    LET hits == {i \in 1..Len(df.columns) : Strip(df.columns[i]) \in ExportDomesticLabels}
    IN  IF hits = {} THEN 0 ELSE CHOOSE i \in hits : \A j \in hits : i <= j

\* process_sales (total, export and domestic; the per-category, per-customer
\* and per-day breakdowns are not modelled).
ProcessSales(data) ==
    IF data["sales"] = None
    THEN [error |-> "no_sales_data", total |-> Zero, export |-> Zero, domestic |-> Zero]
    ELSE LET df == data["sales"]
             total == SumColumn(df, K_WonHwaHwanSanAeg)
             x == ExportDomesticIndex(df)
         IN  IF x # 0
             THEN [error |-> "",
                   total |-> total,
                   export |-> SumColumn(FilterRows(df, df.columns[x], ExportFlag),
                                        K_WonHwaHwanSanAeg),
                   domestic |-> SumColumn(FilterRows(df, df.columns[x], DomesticFlag),
                                          K_WonHwaHwanSanAeg)]
             ELSE [error |-> "", total |-> total, export |-> Zero, domestic |-> total]

\* process_purchases
ProcessPurchases(data) ==
    IF data["purchases"] = None
    THEN [error |-> "no_purchases_data", total |-> Zero]
    ELSE [error |-> "", total |-> SumColumn(data["purchases"], K_GongGeubGaAeg)]

\* process_payroll
ProcessPayroll(data) ==
    IF data["payroll"] = None
    THEN [error |-> "no_payroll_data", total |-> Zero,
          direct_labor |-> Zero, indirect_labor |-> Zero]
    ELSE LET df == data["payroll"]
         IN  [error |-> "",
              total |-> SumColumn(df, K_JiGeubChongAeg),
              direct_labor |->
                  SumColumn(FilterRows(df, K_WonGaGuBun, DirectLaborFlag), K_JiGeubChongAeg),
              indirect_labor |->
                  SumColumn(FilterRows(df, K_WonGaGuBun, IndirectLaborFlag), K_JiGeubChongAeg)]

\* process_manufacturing_expenses
ProcessManufacturingExpenses(data) ==
    IF data["mfg_expenses"] = None
    THEN [error |-> "no_mfg_expenses_data", total |-> Zero]
    ELSE [error |-> "", total |-> SumColumn(data["mfg_expenses"], K_ChaByeonGeumAeg)]

\* beginning, ending and change of one inventory class.
InventoryChange(df, class) ==
    LET part == FilterRows(df, K_PumMogBunRyu, class)
        beginning == SumColumn(part, K_GiChoGeumAeg)
        ending == SumColumn(part, K_GiMalGeumAeg)
    IN  [beginning |-> beginning, ending |-> ending, change |-> NSub(ending, beginning)]

NoChange ==
    [beginning |-> Zero, ending |-> Zero, change |-> Zero]

\* process_inventory.  The aggregation of lines 344-349 names 입고금액 and
\* 출고금액: a frame without one of them raises KeyError.
ProcessInventory(data) ==
    IF data["inventory"] = None
    THEN [error |-> "no_inventory_data", raises |-> FALSE,
          raw_material |-> NoChange, products |-> NoChange, work_in_progress |-> NoChange]
    ELSE LET df == data["inventory"]
         IN  IF ~(HasColumn(df, K_IbGoGeumAeg) /\ HasColumn(df, K_ChulGoGeumAeg))
             THEN [error |-> "", raises |-> TRUE,
                   raw_material |-> NoChange, products |-> NoChange,
                   work_in_progress |-> NoChange]
             ELSE [error |-> "", raises |-> FALSE,
                   raw_material |-> InventoryChange(df, RawMaterialClass),
                   products |-> InventoryChange(df, ProductClass),
                   work_in_progress |-> InventoryChange(df, WorkInProgressClass)]

\* process_selling_admin_expenses
ProcessSellingAdminExpenses(data) ==
    IF data["sg_expenses"] = None
    THEN [error |-> "no_sg_expenses_data", total |-> Zero]
    ELSE [error |-> "", total |-> SumColumn(data["sg_expenses"], K_ChaByeonGeumAeg)]

----------------------------------------------------------------------------
\* ERPDataProcessor.generate_income_statement

\* self.errors.append(r['error']) when the step reported an error.
AppendError(log, r) ==
    IF r.error # "" THEN Append(log, r.error) ELSE log

\* total_manufacturing_cost, lines 486-492
TotalManufacturingCost(raw_material_cost, rm_change, direct_labor, manufacturing_overhead, wip_change) ==
    NSub(NAdd(NAdd(NSub(raw_material_cost, rm_change), direct_labor),
              manufacturing_overhead),
         wip_change)

\* A faulty line 496: the finished-goods change added instead of subtracted.
CostOfGoodsSoldAdding(total_manufacturing_cost, prod_change) ==
    NAdd(total_manufacturing_cost, prod_change)

\* cost_of_goods_sold, line 496
CostOfGoodsSold(total_manufacturing_cost, prod_change) ==
    NSub(total_manufacturing_cost, prod_change)

\* gross_profit, line 499
GrossProfit(total_revenue, cost_of_goods_sold) ==
    NSub(total_revenue, cost_of_goods_sold)

\* total_sg_expenses, line 502
TotalSgExpenses(selling_admin_expenses, indirect_labor) ==
    NAdd(selling_admin_expenses, indirect_labor)

\* operating_profit, line 505
OperatingProfit(gross_profit, total_sg_expenses) ==
    NSub(gross_profit, total_sg_expenses)

\* An entry of 'ratios' guarded by `if total_revenue` instead of
\* `if total_revenue > 0`.
RatioWhenNonzero(x, total_revenue) ==
    IF total_revenue.v # 0
    THEN IF total_revenue.v > 0
         THEN RatioPercent(SanitizeNumber(x), SanitizeNumber(total_revenue))
         ELSE RatioPercent(0 - SanitizeNumber(x), 0 - SanitizeNumber(total_revenue))
    ELSE 0

\* One entry of 'ratios', lines 534-536.
Ratio(x, total_revenue) ==
    IF total_revenue.v > 0
    THEN RatioPercent(SanitizeNumber(x), SanitizeNumber(total_revenue))
    ELSE 0

\* result['data_sources']
DataSources(data) ==
    LET loaded == SelectSeq(DataTypeOrder, LAMBDA t : data[t] # None)
    IN  [i \in 1..Len(loaded) |-> [type |-> loaded[i], rows |-> Len(data[loaded[i]].rows)]]

\* The result when the call raised instead of returning.
NoResult ==
    [isnone |-> TRUE]

\* generate_income_statement from line 429 on, given what the six process_*
\* calls returned.
Synthesize(processor, sales_result, purchase_result, payroll_result, mfg_result, inventory_result, sg_result) ==
    LET data == processor.data
        errors4 == AppendError(AppendError(AppendError(AppendError(
                       processor.errors, sales_result), purchase_result),
                       payroll_result), mfg_result)
        errors == AppendError(errors4, sg_result)
        warnings == IF inventory_result.error # ""
                    THEN Append(processor.warnings, "no_inventory_data")
                    ELSE processor.warnings
        total_revenue == sales_result.total
        raw_material_cost == purchase_result.total
        direct_labor == payroll_result.direct_labor
        indirect_labor == payroll_result.indirect_labor
        manufacturing_overhead == mfg_result.total
        rm_change == inventory_result.raw_material.change
        wip_change == inventory_result.work_in_progress.change
        prod_change == inventory_result.products.change
        selling_admin_expenses == sg_result.total
        total_manufacturing_cost ==
            TotalManufacturingCost(raw_material_cost, rm_change, direct_labor,
                                   manufacturing_overhead, wip_change)
        cost_of_goods_sold == CostOfGoodsSold(total_manufacturing_cost, prod_change)
        gross_profit == GrossProfit(total_revenue, cost_of_goods_sold)
        total_sg_expenses == TotalSgExpenses(selling_admin_expenses, indirect_labor)
        operating_profit == OperatingProfit(gross_profit, total_sg_expenses)
    IN  IF inventory_result.raises
        THEN [raised |-> TRUE, errors |-> errors4, warnings |-> processor.warnings,
              result |-> NoResult]
        ELSE [raised |-> FALSE, errors |-> errors, warnings |-> warnings,
              result |->
                [data_sources |-> DataSources(data),
                 errors |-> errors,
                 warnings |-> warnings,
                 income_statement |->
                   [revenue |->
                      [total |-> SanitizeNumber(total_revenue),
                       export |-> SanitizeNumber(sales_result.export),
                       domestic |-> SanitizeNumber(sales_result.domestic)],
                    cost_of_goods_sold |->
                      [total |-> SanitizeNumber(cost_of_goods_sold),
                       breakdown |->
                         [raw_materials |->
                              SanitizeNumber(NSub(raw_material_cost, rm_change)),
                          direct_labor |-> SanitizeNumber(direct_labor),
                          manufacturing_overhead |-> SanitizeNumber(manufacturing_overhead),
                          inventory_adjustment |->
                              SanitizeNumber(NNeg(NAdd(wip_change, prod_change)))]],
                    gross_profit |-> SanitizeNumber(gross_profit),
                    selling_admin_expenses |->
                      [total |-> SanitizeNumber(total_sg_expenses),
                       breakdown |->
                         [sg_expenses |-> SanitizeNumber(selling_admin_expenses),
                          indirect_labor |-> SanitizeNumber(indirect_labor)]],
                    operating_profit |-> SanitizeNumber(operating_profit),
                    ratios |->
                      [cost_ratio |-> Ratio(cost_of_goods_sold, total_revenue),
                       gross_margin |-> Ratio(gross_profit, total_revenue),
                       operating_margin |-> Ratio(operating_profit, total_revenue)]]]]

\* generate_income_statement on a processor: whether it raised, the
\* processor's errors and warnings afterwards, and the sanitized result.
\* ('period', 'generated_at' and 'details' are not modelled.)
GenerateIncomeStatement(processor) ==
    Synthesize(processor,
               ProcessSales(processor.data),
               ProcessPurchases(processor.data),
               ProcessPayroll(processor.data),
               ProcessManufacturingExpenses(processor.data),
               ProcessInventory(processor.data),
               ProcessSellingAdminExpenses(processor.data))

----------------------------------------------------------------------------
\* The routes of erp_sync.py.  Each request runs to completion; `request`
\* records it and `response` is what it returned.

\* upload_erp_file: allowed_extensions, valid_types
AllowedExtensions ==
    {".xlsx", ".xls"}

ValidTypes ==
    DataTypeOrder

\* processors[session_id] = processor
Put(f, k, v) ==
    [x \in DOMAIN f \cup {k} |-> IF x = k THEN v ELSE f[x]]

\* del processors[session_id]
Remove(f, k) ==
    [x \in DOMAIN f \ {k} |-> f[x]]

\* [k for k, v in processor.data.items() if v is not None]
LoadedTypes(data) ==
    SelectSeq(DataTypeOrder, LAMBDA t : data[t] # None)

\* A faulty list of missing types that forgets the filter.
TypesUnfiltered(loaded) ==
    ValidTypes

\* [t for t in valid_types if t not in loaded]
TypesNotIn(loaded) ==
    SelectSeq(ValidTypes, LAMBDA t : ~InSeq(t, loaded))

\* df.head(5) of the stored frame, as the rows of 'preview'.
Preview(rows) ==
    SubSeq(rows, 1, IF Len(rows) < 5 THEN Len(rows) ELSE 5)

UploadResponse(status, success, detail, session_id, load, preview, loaded) ==
    [op |-> "upload", status |-> status, success |-> success, detail |-> detail,
     session_id |-> session_id,
     error |-> load.error, missing |-> load.missing,
     found_columns |-> load.found_columns,
     data_type |-> load.data_type, rows |-> load.rows, columns |-> load.columns,
     preview |-> preview,
     loaded_data_types |-> loaded,
     remaining_types |-> IF success THEN TypesNotIn(loaded) ELSE <<>>]

NoLoad ==
    LoadResult(FALSE, "", <<>>, FALSE, <<>>, "", 0, <<>>)

\* processors[session_id] once lines 131-137 have run: the session's
\* processor, or a new one.
SessionProcessor(sid) ==
    IF sid \in DOMAIN processors THEN processors[sid] ELSE NewProcessor

\* upload_erp_file from line 150 on: `loaded` is what load_excel returned
\* and left in the processor's data.
UploadLoaded(sid, data_type, loaded) ==
    /\ processors' = Put(processors, sid,
                         [SessionProcessor(sid) EXCEPT !.data = loaded.data])
    /\ response' =
            IF ~loaded.result.success
            THEN UploadResponse(400, FALSE, "", sid, loaded.result, <<>>, <<>>)
            ELSE UploadResponse(200, TRUE, "", sid, loaded.result,
                                Preview(loaded.data[data_type].rows),
                                LoadedTypes(loaded.data))

\* upload_erp_file after its two validations, for the session id in use.
UploadToSession(sid, inp) ==
    UploadLoaded(sid, inp.data_type,
                 LoadExcel(SessionProcessor(sid).data, inp.file, inp.data_type,
                           inp.column_mapping))

\* POST /upload
UploadErpFile(inp) ==
    /\ request' = [op |-> "upload", session_id |-> inp.session_id,
                   data_type |-> inp.data_type, file |-> inp.file,
                   column_mapping |-> inp.column_mapping]
    /\ IF inp.file.ext \notin AllowedExtensions
       THEN /\ response' = UploadResponse(400, FALSE, "unsupported_file_type",
                                          inp.session_id, NoLoad, <<>>, <<>>)
            /\ UNCHANGED processors
       ELSE IF ~InSeq(inp.data_type, ValidTypes)
       THEN /\ response' = UploadResponse(400, FALSE, "invalid_data_type",
                                          inp.session_id, NoLoad, <<>>, <<>>)
            /\ UNCHANGED processors
       ELSE \E sid \in (IF inp.session_id = NoSessionId
                        THEN SessionIds \ DOMAIN processors
                        ELSE {inp.session_id}) :
                UploadToSession(sid, inp)

\* GET /session/{session_id}/status
GetSessionStatus(session_id) ==
    /\ request' = [op |-> "status", session_id |-> session_id]
    /\ UNCHANGED processors
    /\ IF session_id \notin DOMAIN processors
       THEN response' = [op |-> "status", status |-> 404, success |-> FALSE,
                         session_id |-> session_id, loaded_data |-> <<>>,
                         missing_data |-> <<>>, ready_for_processing |-> FALSE,
                         can_generate_basic |-> FALSE]
       ELSE LET data == processors[session_id].data
                loaded == LoadedTypes(data)
                missing == TypesNotIn(loaded)
            IN  response' =
                   [op |-> "status", status |-> 200, success |-> TRUE,
                    session_id |-> session_id,
                    loaded_data |->
                        [i \in 1..Len(loaded) |->
                            [type |-> loaded[i],
                             rows |-> Len(data[loaded[i]].rows),
                             columns |-> data[loaded[i]].columns]],
                    missing_data |-> missing,
                    ready_for_processing |-> Len(missing) = 0,
                    can_generate_basic |->
                        InSeq("sales", loaded) /\ InSeq("purchases", loaded)]

\* Longest errors + warnings log a processor may carry into another
\* generate call (the lists grow with every call; this bounds the model).
MaxLogLen == 1

GenerateResponse(status, success, detail, session_id, result) ==
    [op |-> "generate", status |-> status, success |-> success, detail |-> detail,
     session_id |-> session_id, result |-> result]

\* Lines 236-290: g is what processor.generate_income_statement() did.
Generated(session_id, g) ==
    /\ processors' = [processors EXCEPT ![session_id].errors = g.errors,
                                        ![session_id].warnings = g.warnings]
    /\ response' =
            IF g.raised
            THEN GenerateResponse(500, FALSE, "exception", session_id, NoResult)
            ELSE GenerateResponse(200, TRUE, "", session_id, g.result)

\* A faulty generate route without the check of lines 228-230.
GenerateWithoutSalesCheck(session_id) ==
    /\ request' = [op |-> "generate", session_id |-> session_id]
    /\ IF session_id \notin DOMAIN processors
       THEN /\ response' = GenerateResponse(404, FALSE, "session_not_found",
                                            session_id, NoResult)
            /\ UNCHANGED processors
       ELSE /\ Len(processors[session_id].errors)
                    + Len(processors[session_id].warnings) <= MaxLogLen
            /\ Generated(session_id, GenerateIncomeStatement(processors[session_id]))

\* POST /session/{session_id}/generate  (the optional AI commentary and the
\* copy into the global P&L store of routes/data.py are not modelled).
GenerateIncomeStatementRoute(session_id) ==
    /\ request' = [op |-> "generate", session_id |-> session_id]
    /\ IF session_id \notin DOMAIN processors
       THEN /\ response' = GenerateResponse(404, FALSE, "session_not_found",
                                            session_id, NoResult)
            /\ UNCHANGED processors
       ELSE IF processors[session_id].data["sales"] = None
       THEN /\ response' = GenerateResponse(400, FALSE, "sales_data_required",
                                            session_id, NoResult)
            /\ UNCHANGED processors
       ELSE /\ Len(processors[session_id].errors)
                    + Len(processors[session_id].warnings) <= MaxLogLen
            /\ Generated(session_id, GenerateIncomeStatement(processors[session_id]))

\* DELETE /session/{session_id}
DeleteSession(session_id) ==
    /\ request' = [op |-> "delete", session_id |-> session_id]
    /\ IF session_id \in DOMAIN processors
       THEN /\ processors' = Remove(processors, session_id)
            /\ response' = [op |-> "delete", status |-> 200, success |-> TRUE]
       ELSE /\ response' = [op |-> "delete", status |-> 404, success |-> FALSE]
            /\ UNCHANGED processors

\* One file of the loop of quick_generate: l is what load_excel returned.
QuickLoadStep(acc, t, l) ==
    [data |-> l.data,
     loaded_files |->
        IF l.result.success
        THEN Append(acc.loaded_files, [type |-> t, rows |-> l.result.rows])
        ELSE acc.loaded_files,
     errors |->
        IF l.result.success
        THEN acc.errors
        ELSE Append(acc.errors, [type |-> t, error |-> l.result.error])]

\* The loop of quick_generate over files_map: the processor's data,
\* loaded_files and errors after the files from position i on.  files[t]
\* is the file given for type t, or None.
RECURSIVE QuickLoad(_, _, _)
QuickLoad(acc, files, i) ==
    IF i > Len(DataTypeOrder)
    THEN acc
    ELSE QuickLoad(IF files[DataTypeOrder[i]] = None
                   THEN acc
                   ELSE QuickLoadStep(acc, DataTypeOrder[i],
                                      LoadExcel(acc.data, files[DataTypeOrder[i]],
                                                DataTypeOrder[i], NoMapping)),
                   files, i + 1)

QuickResponse(status, success, detail, loaded_files, errors, result) ==
    [op |-> "quick_generate", status |-> status, success |-> success,
     detail |-> detail, loaded_files |-> loaded_files, errors |-> errors,
     result |-> result]

\* quick_generate from line 373 on: g is what generate_income_statement did.
QuickGenerated(q, g) ==
    IF g.raised
    THEN QuickResponse(500, FALSE, "exception", <<>>, <<>>, NoResult)
    ELSE QuickResponse(200, TRUE, "", q.loaded_files, q.errors, g.result)

\* quick_generate after its loop over the files.
QuickLoaded(q) ==
    IF q.data["sales"] = None
    THEN QuickResponse(400, FALSE, "sales_file_required", q.loaded_files, q.errors,
                       NoResult)
    ELSE QuickGenerated(q, GenerateIncomeStatement([NewProcessor EXCEPT !.data = q.data]))

\* What quick_generate returns for files_map `files`.
QuickReturn(files) ==
    QuickLoaded(QuickLoad([data |-> NewProcessor.data, loaded_files |-> <<>>,
                           errors |-> <<>>], files, 1))

\* QuickReturn on the enumerated requests, evaluated once (the request
\* reads no state).
QuickTable ==
    [files \in StoreQuickFiles \cup AmountQuickFiles |-> QuickReturn(files)]

\* POST /quick-generate: a processor of its own, never stored.
QuickGenerate(files) ==
    /\ request' = [op |-> "quick_generate", files |-> files]
    /\ UNCHANGED processors
    /\ response' = IF files \in DOMAIN QuickTable
                   THEN QuickTable[files]
                   ELSE QuickReturn(files)
\* AISmartParser.COLUMN_MAPPINGS (lines 30-101): per data type, the standard names in
\* dictionary order, each with its list of variations.
COLUMN_MAPPINGS ==
    [ sales |-> <<
        \* 전표일자: 전표일자, 일자, 날짜, Date, date, 거래일, 거래일자, Transaction Date, BUDAT, 전표날짜, 매출일자, 매출일
        [standard_name |-> <<"<jeon>", "<pyo>", "<il>", "<ja>">>,
         variations |-> <<
            <<"<jeon>", "<pyo>", "<il>", "<ja>">>,
            <<"<il>", "<ja>">>,
            <<"<nal>", "<jja>">>,
            <<"D", "a", "t", "e">>,
            <<"d", "a", "t", "e">>,
            <<"<geo>", "<rae>", "<il>">>,
            <<"<geo>", "<rae>", "<il>", "<ja>">>,
            <<"T", "r", "a", "n", "s", "a", "c", "t", "i", "o", "n", " ", "D", "a", "t", "e">>,
            <<"B", "U", "D", "A", "T">>,
            <<"<jeon>", "<pyo>", "<nal>", "<jja>">>,
            <<"<mae>", "<chul>", "<il>", "<ja>">>,
            <<"<mae>", "<chul>", "<il>">>
         >>],
        \* 전표번호: 전표번호, 번호, No, no, Document No, BELNR, 문서번호, 매출번호, Invoice No, Voucher No
        [standard_name |-> <<"<jeon>", "<pyo>", "<beon>", "<ho>">>,
         variations |-> <<
            <<"<jeon>", "<pyo>", "<beon>", "<ho>">>,
            <<"<beon>", "<ho>">>,
            <<"N", "o">>,
            <<"n", "o">>,
            <<"D", "o", "c", "u", "m", "e", "n", "t", " ", "N", "o">>,
            <<"B", "E", "L", "N", "R">>,
            <<"<mun>", "<seo>", "<beon>", "<ho>">>,
            <<"<mae>", "<chul>", "<beon>", "<ho>">>,
            <<"I", "n", "v", "o", "i", "c", "e", " ", "N", "o">>,
            <<"V", "o", "u", "c", "h", "e", "r", " ", "N", "o">>
         >>],
        \* 거래처코드: 거래처코드, 고객코드, Customer Code, KUNNR, Cust Code, 거래선코드, BP Code
        [standard_name |-> <<"<geo>", "<rae>", "<cheo>", "<ko>", "<deu>">>,
         variations |-> <<
            <<"<geo>", "<rae>", "<cheo>", "<ko>", "<deu>">>,
            <<"<go>", "<gaeg>", "<ko>", "<deu>">>,
            <<"C", "u", "s", "t", "o", "m", "e", "r", " ", "C", "o", "d", "e">>,
            <<"K", "U", "N", "N", "R">>,
            <<"C", "u", "s", "t", " ", "C", "o", "d", "e">>,
            <<"<geo>", "<rae>", "<seon>", "<ko>", "<deu>">>,
            <<"B", "P", " ", "C", "o", "d", "e">>
         >>],
        \* 거래처명: 거래처명, 고객명, 거래처, Customer, Customer Name, NAME1, 거래선명, BP Name, 매출처, 판매처
        [standard_name |-> <<"<geo>", "<rae>", "<cheo>", "<myeong>">>,
         variations |-> <<
            <<"<geo>", "<rae>", "<cheo>", "<myeong>">>,
            <<"<go>", "<gaeg>", "<myeong>">>,
            <<"<geo>", "<rae>", "<cheo>">>,
            <<"C", "u", "s", "t", "o", "m", "e", "r">>,
            <<"C", "u", "s", "t", "o", "m", "e", "r", " ", "N", "a", "m", "e">>,
            <<"N", "A", "M", "E", "1">>,
            <<"<geo>", "<rae>", "<seon>", "<myeong>">>,
            <<"B", "P", " ", "N", "a", "m", "e">>,
            <<"<mae>", "<chul>", "<cheo>">>,
            <<"<pan>", "<mae>", "<cheo>">>
         >>],
        \* 제품코드: 제품코드, 품목코드, Item Code, MATNR, Product Code, 상품코드, SKU, Material
        [standard_name |-> <<"<je>", "<pum>", "<ko>", "<deu>">>,
         variations |-> <<
            <<"<je>", "<pum>", "<ko>", "<deu>">>,
            <<"<pum>", "<mog>", "<ko>", "<deu>">>,
            <<"I", "t", "e", "m", " ", "C", "o", "d", "e">>,
            <<"M", "A", "T", "N", "R">>,
            <<"P", "r", "o", "d", "u", "c", "t", " ", "C", "o", "d", "e">>,
            <<"<sang>", "<pum>", "<ko>", "<deu>">>,
            <<"S", "K", "U">>,
            <<"M", "a", "t", "e", "r", "i", "a", "l">>
         >>],
        \* 제품명: 제품명, 품목명, 품명, Item, Product, Product Name, MAKTX, 상품명, Description, 품목
        [standard_name |-> <<"<je>", "<pum>", "<myeong>">>,
         variations |-> <<
            <<"<je>", "<pum>", "<myeong>">>,
            <<"<pum>", "<mog>", "<myeong>">>,
            <<"<pum>", "<myeong>">>,
            <<"I", "t", "e", "m">>,
            <<"P", "r", "o", "d", "u", "c", "t">>,
            <<"P", "r", "o", "d", "u", "c", "t", " ", "N", "a", "m", "e">>,
            <<"M", "A", "K", "T", "X">>,
            <<"<sang>", "<pum>", "<myeong>">>,
            <<"D", "e", "s", "c", "r", "i", "p", "t", "i", "o", "n">>,
            <<"<pum>", "<mog>">>
         >>],
        \* 수량: 수량, Qty, Quantity, MENGE, 판매수량, Sales Qty, 매출수량, Amount, 개수
        [standard_name |-> <<"<su>", "<ryang>">>,
         variations |-> <<
            <<"<su>", "<ryang>">>,
            <<"Q", "t", "y">>,
            <<"Q", "u", "a", "n", "t", "i", "t", "y">>,
            <<"M", "E", "N", "G", "E">>,
            <<"<pan>", "<mae>", "<su>", "<ryang>">>,
            <<"S", "a", "l", "e", "s", " ", "Q", "t", "y">>,
            <<"<mae>", "<chul>", "<su>", "<ryang>">>,
            <<"A", "m", "o", "u", "n", "t">>,
            <<"<gae>", "<su>">>
         >>],
        \* 단위: 단위, Unit, UOM, MEINS, 수량단위
        [standard_name |-> <<"<dan>", "<wi>">>,
         variations |-> <<
            <<"<dan>", "<wi>">>,
            <<"U", "n", "i", "t">>,
            <<"U", "O", "M">>,
            <<"M", "E", "I", "N", "S">>,
            <<"<su>", "<ryang>", "<dan>", "<wi>">>
         >>],
        \* 단가: 단가, Price, Unit Price, 판매단가, NETPR
        [standard_name |-> <<"<dan>", "<ga>">>,
         variations |-> <<
            <<"<dan>", "<ga>">>,
            <<"P", "r", "i", "c", "e">>,
            <<"U", "n", "i", "t", " ", "P", "r", "i", "c", "e">>,
            <<"<pan>", "<mae>", "<dan>", "<ga>">>,
            <<"N", "E", "T", "P", "R">>
         >>],
        \* 공급가액: 공급가액, 금액, Amount, Net Amount, NETWR, 매출액, Sales Amount, 판매금액, 공급가
        [standard_name |-> <<"<gong>", "<geub>", "<ga>", "<aeg>">>,
         variations |-> <<
            <<"<gong>", "<geub>", "<ga>", "<aeg>">>,
            <<"<geum>", "<aeg>">>,
            <<"A", "m", "o", "u", "n", "t">>,
            <<"N", "e", "t", " ", "A", "m", "o", "u", "n", "t">>,
            <<"N", "E", "T", "W", "R">>,
            <<"<mae>", "<chul>", "<aeg>">>,
            <<"S", "a", "l", "e", "s", " ", "A", "m", "o", "u", "n", "t">>,
            <<"<pan>", "<mae>", "<geum>", "<aeg>">>,
            <<"<gong>", "<geub>", "<ga>">>
         >>],
        \* 부가세: 부가세, VAT, Tax, 세금, MWSBP, 부가가치세
        [standard_name |-> <<"<bu>", "<ga>", "<se>">>,
         variations |-> <<
            <<"<bu>", "<ga>", "<se>">>,
            <<"V", "A", "T">>,
            <<"T", "a", "x">>,
            <<"<se>", "<geum>">>,
            <<"M", "W", "S", "B", "P">>,
            <<"<bu>", "<ga>", "<ga>", "<chi>", "<se>">>
         >>],
        \* 합계금액: 합계금액, 합계, Total, Total Amount, 총액, 총금액, Grand Total
        [standard_name |-> <<"<hab>", "<gye>", "<geum>", "<aeg>">>,
         variations |-> <<
            <<"<hab>", "<gye>", "<geum>", "<aeg>">>,
            <<"<hab>", "<gye>">>,
            <<"T", "o", "t", "a", "l">>,
            <<"T", "o", "t", "a", "l", " ", "A", "m", "o", "u", "n", "t">>,
            <<"<chong>", "<aeg>">>,
            <<"<chong>", "<geum>", "<aeg>">>,
            <<"G", "r", "a", "n", "d", " ", "T", "o", "t", "a", "l">>
         >>],
        \* 통화: 통화, Currency, WAERK, 화폐, Curr
        [standard_name |-> <<"<tong>", "<hwa>">>,
         variations |-> <<
            <<"<tong>", "<hwa>">>,
            <<"C", "u", "r", "r", "e", "n", "c", "y">>,
            <<"W", "A", "E", "R", "K">>,
            <<"<hwa>", "<pye>">>,
            <<"C", "u", "r", "r">>
         >>],
        \* 환율: 환율, Exchange Rate, Rate, KURRF, FX Rate
        [standard_name |-> <<"<hwan>", "<yul>">>,
         variations |-> <<
            <<"<hwan>", "<yul>">>,
            <<"E", "x", "c", "h", "a", "n", "g", "e", " ", "R", "a", "t", "e">>,
            <<"R", "a", "t", "e">>,
            <<"K", "U", "R", "R", "F">>,
            <<"F", "X", " ", "R", "a", "t", "e">>
         >>],
        \* 원화환산액: 원화환산액, 원화금액, KRW Amount, 원화, 환산금액, Local Amount, 원화매출, DMBTR, Local Currency Amount
        [standard_name |-> <<"<won>", "<hwa>", "<hwan>", "<san>", "<aeg>">>,
         variations |-> <<
            <<"<won>", "<hwa>", "<hwan>", "<san>", "<aeg>">>,
            <<"<won>", "<hwa>", "<geum>", "<aeg>">>,
            <<"K", "R", "W", " ", "A", "m", "o", "u", "n", "t">>,
            <<"<won>", "<hwa>">>,
            <<"<hwan>", "<san>", "<geum>", "<aeg>">>,
            <<"L", "o", "c", "a", "l", " ", "A", "m", "o", "u", "n", "t">>,
            <<"<won>", "<hwa>", "<mae>", "<chul>">>,
            <<"D", "M", "B", "T", "R">>,
            <<"L", "o", "c", "a", "l", " ", "C", "u", "r", "r", "e", "n", "c", "y", " ", "A", "m", "o", "u", "n", "t">>
         >>],
        \* 수출/내수: 수출/내수, 내수/수출, Export/Domestic, 구분, 거래구분, Type, 매출구분
        [standard_name |-> <<"<su>", "<chul>", "/", "<nae>", "<su>">>,
         variations |-> <<
            <<"<su>", "<chul>", "/", "<nae>", "<su>">>,
            <<"<nae>", "<su>", "/", "<su>", "<chul>">>,
            <<"E", "x", "p", "o", "r", "t", "/", "D", "o", "m", "e", "s", "t", "i", "c">>,
            <<"<gu>", "<bun>">>,
            <<"<geo>", "<rae>", "<gu>", "<bun>">>,
            <<"T", "y", "p", "e">>,
            <<"<mae>", "<chul>", "<gu>", "<bun>">>
         >>],
        \* 제품구분: 제품구분, 품목구분, 제품분류, Category, Product Type, 분류
        [standard_name |-> <<"<je>", "<pum>", "<gu>", "<bun>">>,
         variations |-> <<
            <<"<je>", "<pum>", "<gu>", "<bun>">>,
            <<"<pum>", "<mog>", "<gu>", "<bun>">>,
            <<"<je>", "<pum>", "<bun>", "<ryu>">>,
            <<"C", "a", "t", "e", "g", "o", "r", "y">>,
            <<"P", "r", "o", "d", "u", "c", "t", " ", "T", "y", "p", "e">>,
            <<"<bun>", "<ryu>">>
         >>]
      >>,
      purchases |-> <<
        \* 전표일자: 전표일자, 일자, 날짜, Date, 매입일자, 입고일자, PO Date, Receipt Date, BUDAT
        [standard_name |-> <<"<jeon>", "<pyo>", "<il>", "<ja>">>,
         variations |-> <<
            <<"<jeon>", "<pyo>", "<il>", "<ja>">>,
            <<"<il>", "<ja>">>,
            <<"<nal>", "<jja>">>,
            <<"D", "a", "t", "e">>,
            <<"<mae>", "<ib>", "<il>", "<ja>">>,
            <<"<ib>", "<go>", "<il>", "<ja>">>,
            <<"P", "O", " ", "D", "a", "t", "e">>,
            <<"R", "e", "c", "e", "i", "p", "t", " ", "D", "a", "t", "e">>,
            <<"B", "U", "D", "A", "T">>
         >>],
        \* 전표번호: 전표번호, 매입번호, PO No, Receipt No, BELNR
        [standard_name |-> <<"<jeon>", "<pyo>", "<beon>", "<ho>">>,
         variations |-> <<
            <<"<jeon>", "<pyo>", "<beon>", "<ho>">>,
            <<"<mae>", "<ib>", "<beon>", "<ho>">>,
            <<"P", "O", " ", "N", "o">>,
            <<"R", "e", "c", "e", "i", "p", "t", " ", "N", "o">>,
            <<"B", "E", "L", "N", "R">>
         >>],
        \* 공급업체코드: 공급업체코드, 업체코드, Vendor Code, LIFNR, Supplier Code, 거래처코드
        [standard_name |-> <<"<gong>", "<geub>", "<eob>", "<che>", "<ko>", "<deu>">>,
         variations |-> <<
            <<"<gong>", "<geub>", "<eob>", "<che>", "<ko>", "<deu>">>,
            <<"<eob>", "<che>", "<ko>", "<deu>">>,
            <<"V", "e", "n", "d", "o", "r", " ", "C", "o", "d", "e">>,
            <<"L", "I", "F", "N", "R">>,
            <<"S", "u", "p", "p", "l", "i", "e", "r", " ", "C", "o", "d", "e">>,
            <<"<geo>", "<rae>", "<cheo>", "<ko>", "<deu>">>
         >>],
        \* 공급업체명: 공급업체명, 업체명, 공급업체, Vendor, Vendor Name, Supplier, Supplier Name, NAME1, 거래처명
        [standard_name |-> <<"<gong>", "<geub>", "<eob>", "<che>", "<myeong>">>,
         variations |-> <<
            <<"<gong>", "<geub>", "<eob>", "<che>", "<myeong>">>,
            <<"<eob>", "<che>", "<myeong>">>,
            <<"<gong>", "<geub>", "<eob>", "<che>">>,
            <<"V", "e", "n", "d", "o", "r">>,
            <<"V", "e", "n", "d", "o", "r", " ", "N", "a", "m", "e">>,
            <<"S", "u", "p", "p", "l", "i", "e", "r">>,
            <<"S", "u", "p", "p", "l", "i", "e", "r", " ", "N", "a", "m", "e">>,
            <<"N", "A", "M", "E", "1">>,
            <<"<geo>", "<rae>", "<cheo>", "<myeong>">>
         >>],
        \* 품목코드: 품목코드, 자재코드, Material Code, MATNR, Item Code, 원자재코드
        [standard_name |-> <<"<pum>", "<mog>", "<ko>", "<deu>">>,
         variations |-> <<
            <<"<pum>", "<mog>", "<ko>", "<deu>">>,
            <<"<ja>", "<jae>", "<ko>", "<deu>">>,
            <<"M", "a", "t", "e", "r", "i", "a", "l", " ", "C", "o", "d", "e">>,
            <<"M", "A", "T", "N", "R">>,
            <<"I", "t", "e", "m", " ", "C", "o", "d", "e">>,
            <<"<won>", "<ja>", "<jae>", "<ko>", "<deu>">>
         >>],
        \* 품목명: 품목명, 자재명, Material, Material Name, MAKTX, Item, Description, 원자재명
        [standard_name |-> <<"<pum>", "<mog>", "<myeong>">>,
         variations |-> <<
            <<"<pum>", "<mog>", "<myeong>">>,
            <<"<ja>", "<jae>", "<myeong>">>,
            <<"M", "a", "t", "e", "r", "i", "a", "l">>,
            <<"M", "a", "t", "e", "r", "i", "a", "l", " ", "N", "a", "m", "e">>,
            <<"M", "A", "K", "T", "X">>,
            <<"I", "t", "e", "m">>,
            <<"D", "e", "s", "c", "r", "i", "p", "t", "i", "o", "n">>,
            <<"<won>", "<ja>", "<jae>", "<myeong>">>
         >>],
        \* 품목분류: 품목분류, 자재분류, Material Type, Category, 분류, Type
        [standard_name |-> <<"<pum>", "<mog>", "<bun>", "<ryu>">>,
         variations |-> <<
            <<"<pum>", "<mog>", "<bun>", "<ryu>">>,
            <<"<ja>", "<jae>", "<bun>", "<ryu>">>,
            <<"M", "a", "t", "e", "r", "i", "a", "l", " ", "T", "y", "p", "e">>,
            <<"C", "a", "t", "e", "g", "o", "r", "y">>,
            <<"<bun>", "<ryu>">>,
            <<"T", "y", "p", "e">>
         >>],
        \* 수량: 수량, Qty, Quantity, MENGE, 입고수량, Receipt Qty, 매입수량, 입고QTY, QTY, 구매수량
        [standard_name |-> <<"<su>", "<ryang>">>,
         variations |-> <<
            <<"<su>", "<ryang>">>,
            <<"Q", "t", "y">>,
            <<"Q", "u", "a", "n", "t", "i", "t", "y">>,
            <<"M", "E", "N", "G", "E">>,
            <<"<ib>", "<go>", "<su>", "<ryang>">>,
            <<"R", "e", "c", "e", "i", "p", "t", " ", "Q", "t", "y">>,
            <<"<mae>", "<ib>", "<su>", "<ryang>">>,
            <<"<ib>", "<go>", "Q", "T", "Y">>,
            <<"Q", "T", "Y">>,
            <<"<gu>", "<mae>", "<su>", "<ryang>">>
         >>],
        \* 단위: 단위, Unit, UOM, MEINS
        [standard_name |-> <<"<dan>", "<wi>">>,
         variations |-> <<
            <<"<dan>", "<wi>">>,
            <<"U", "n", "i", "t">>,
            <<"U", "O", "M">>,
            <<"M", "E", "I", "N", "S">>
         >>],
        \* 단가: 단가, Price, Unit Price, NETPR, 매입단가
        [standard_name |-> <<"<dan>", "<ga>">>,
         variations |-> <<
            <<"<dan>", "<ga>">>,
            <<"P", "r", "i", "c", "e">>,
            <<"U", "n", "i", "t", " ", "P", "r", "i", "c", "e">>,
            <<"N", "E", "T", "P", "R">>,
            <<"<mae>", "<ib>", "<dan>", "<ga>">>
         >>],
        \* 공급가액: 공급가액, 금액, Amount, Net Amount, NETWR, 매입금액, Purchase Amount, 매입액, 구매금액, 매입가액
        [standard_name |-> <<"<gong>", "<geub>", "<ga>", "<aeg>">>,
         variations |-> <<
            <<"<gong>", "<geub>", "<ga>", "<aeg>">>,
            <<"<geum>", "<aeg>">>,
            <<"A", "m", "o", "u", "n", "t">>,
            <<"N", "e", "t", " ", "A", "m", "o", "u", "n", "t">>,
            <<"N", "E", "T", "W", "R">>,
            <<"<mae>", "<ib>", "<geum>", "<aeg>">>,
            <<"P", "u", "r", "c", "h", "a", "s", "e", " ", "A", "m", "o", "u", "n", "t">>,
            <<"<mae>", "<ib>", "<aeg>">>,
            <<"<gu>", "<mae>", "<geum>", "<aeg>">>,
            <<"<mae>", "<ib>", "<ga>", "<aeg>">>
         >>],
        \* 부가세: 부가세, VAT, Tax, MWSBP
        [standard_name |-> <<"<bu>", "<ga>", "<se>">>,
         variations |-> <<
            <<"<bu>", "<ga>", "<se>">>,
            <<"V", "A", "T">>,
            <<"T", "a", "x">>,
            <<"M", "W", "S", "B", "P">>
         >>],
        \* 합계금액: 합계금액, 합계, Total, 총액
        [standard_name |-> <<"<hab>", "<gye>", "<geum>", "<aeg>">>,
         variations |-> <<
            <<"<hab>", "<gye>", "<geum>", "<aeg>">>,
            <<"<hab>", "<gye>">>,
            <<"T", "o", "t", "a", "l">>,
            <<"<chong>", "<aeg>">>
         >>]
      >>,
      payroll |-> <<
        \* 사번: 사번, 직원번호, Employee No, Emp No, PERNR, ID
        [standard_name |-> <<"<sa>", "<beon>">>,
         variations |-> <<
            <<"<sa>", "<beon>">>,
            <<"<jig>", "<won>", "<beon>", "<ho>">>,
            <<"E", "m", "p", "l", "o", "y", "e", "e", " ", "N", "o">>,
            <<"E", "m", "p", " ", "N", "o">>,
            <<"P", "E", "R", "N", "R">>,
            <<"I", "D">>
         >>],
        \* 성명: 성명, 이름, Name, Employee Name, ENAME, 직원명
        [standard_name |-> <<"<seong>", "<myeong>">>,
         variations |-> <<
            <<"<seong>", "<myeong>">>,
            <<"<i>", "<reum>">>,
            <<"N", "a", "m", "e">>,
            <<"E", "m", "p", "l", "o", "y", "e", "e", " ", "N", "a", "m", "e">>,
            <<"E", "N", "A", "M", "E">>,
            <<"<jig>", "<won>", "<myeong>">>
         >>],
        \* 부서: 부서, 부서명, Department, Dept, ORGEH, 소속
        [standard_name |-> <<"<bu>", "<seo>">>,
         variations |-> <<
            <<"<bu>", "<seo>">>,
            <<"<bu>", "<seo>", "<myeong>">>,
            <<"D", "e", "p", "a", "r", "t", "m", "e", "n", "t">>,
            <<"D", "e", "p", "t">>,
            <<"O", "R", "G", "E", "H">>,
            <<"<so>", "<sog>">>
         >>],
        \* 직급: 직급, 직위, Position, Title, PLANS, 직책
        [standard_name |-> <<"<jig>", "<geub>">>,
         variations |-> <<
            <<"<jig>", "<geub>">>,
            <<"<jig>", "<wi>">>,
            <<"P", "o", "s", "i", "t", "i", "o", "n">>,
            <<"T", "i", "t", "l", "e">>,
            <<"P", "L", "A", "N", "S">>,
            <<"<jig>", "<chaeg>">>
         >>],
        \* 기본급: 기본급, Base Salary, Basic Pay, BETRG, 본봉
        [standard_name |-> <<"<gi>", "<bon>", "<geub>">>,
         variations |-> <<
            <<"<gi>", "<bon>", "<geub>">>,
            <<"B", "a", "s", "e", " ", "S", "a", "l", "a", "r", "y">>,
            <<"B", "a", "s", "i", "c", " ", "P", "a", "y">>,
            <<"B", "E", "T", "R", "G">>,
            <<"<bon>", "<bong>">>
         >>],
        \* 수당: 수당, Allowance, 제수당, Benefits
        [standard_name |-> <<"<su>", "<dang>">>,
         variations |-> <<
            <<"<su>", "<dang>">>,
            <<"A", "l", "l", "o", "w", "a", "n", "c", "e">>,
            <<"<je>", "<su>", "<dang>">>,
            <<"B", "e", "n", "e", "f", "i", "t", "s">>
         >>],
        \* 공제액: 공제액, Deduction, 공제, 차감액
        [standard_name |-> <<"<gong>", "<je>", "<aeg>">>,
         variations |-> <<
            <<"<gong>", "<je>", "<aeg>">>,
            <<"D", "e", "d", "u", "c", "t", "i", "o", "n">>,
            <<"<gong>", "<je>">>,
            <<"<cha>", "<gam>", "<aeg>">>
         >>],
        \* 지급총액: 지급총액, 실지급액, Net Pay, Total Pay, 지급액, 급여총액, Gross Pay
        [standard_name |-> <<"<ji>", "<geub>", "<chong>", "<aeg>">>,
         variations |-> <<
            <<"<ji>", "<geub>", "<chong>", "<aeg>">>,
            <<"<sil>", "<ji>", "<geub>", "<aeg>">>,
            <<"N", "e", "t", " ", "P", "a", "y">>,
            <<"T", "o", "t", "a", "l", " ", "P", "a", "y">>,
            <<"<ji>", "<geub>", "<aeg>">>,
            <<"<geub>", "<yeo>", "<chong>", "<aeg>">>,
            <<"G", "r", "o", "s", "s", " ", "P", "a", "y">>
         >>],
        \* 원가구분: 원가구분, 원가분류, Cost Type, 노무비구분, 직접/간접, Labor Type
        [standard_name |-> <<"<won>", "<ga>", "<gu>", "<bun>">>,
         variations |-> <<
            <<"<won>", "<ga>", "<gu>", "<bun>">>,
            <<"<won>", "<ga>", "<bun>", "<ryu>">>,
            <<"C", "o", "s", "t", " ", "T", "y", "p", "e">>,
            <<"<no>", "<mu>", "<bi>", "<gu>", "<bun>">>,
            <<"<jig>", "<jeob>", "/", "<gan>", "<jeob>">>,
            <<"L", "a", "b", "o", "r", " ", "T", "y", "p", "e">>
         >>]
      >> ]

\* AISmartParser.ANOMALY_RULES (lines 104-120), the maxima counted in units of
\* 100,000 (the quantum of the cell values).
ANOMALY_RULES ==
    [ sales |-> <<
        \* 수량: max 100,000
        [column |-> <<"<su>", "<ryang>">>, type |-> "numeric", max |-> 1],
        \* 단가: max 100,000,000
        [column |-> <<"<dan>", "<ga>">>, type |-> "numeric", max |-> 1000],
        \* 공급가액: max 10,000,000,000
        [column |-> <<"<gong>", "<geub>", "<ga>", "<aeg>">>, type |-> "numeric", max |-> 100000],
        \* 원화환산액: max 10,000,000,000
        [column |-> <<"<won>", "<hwa>", "<hwan>", "<san>", "<aeg>">>, type |-> "numeric", max |-> 100000]
      >>,
      purchases |-> <<
        \* 수량: max 100,000
        [column |-> <<"<su>", "<ryang>">>, type |-> "numeric", max |-> 1],
        \* 단가: max 100,000,000
        [column |-> <<"<dan>", "<ga>">>, type |-> "numeric", max |-> 1000],
        \* 공급가액: max 10,000,000,000
        [column |-> <<"<gong>", "<geub>", "<ga>", "<aeg>">>, type |-> "numeric", max |-> 100000]
      >>,
      payroll |-> <<
        \* 기본급: max 100,000,000
        [column |-> <<"<gi>", "<bon>", "<geub>">>, type |-> "numeric", max |-> 1000],
        \* 지급총액: max 200,000,000
        [column |-> <<"<ji>", "<geub>", "<chong>", "<aeg>">>, type |-> "numeric", max |-> 2000]
      >> ]

----------------------------------------------------------------------------
\* AISmartParser (backend/services/ai_smart_parser.py).
\*
\* A Python dict is a sequence of <<key, value>> pairs in insertion order with
\* distinct keys.  A table read from a sheet is [columns, rows]; a cell is an
\* integer (an amount counted in units of 100,000), NaN or Text (a string that
\* is not a number).

NaN == [kind |-> "nan", v |-> 0]
Text == [kind |-> "text", v |-> 0]
Cell(n) == [kind |-> "number", v |-> n]

\* JSON null in a reply of the inference service (one symbol, no column name)
JsonNull == <<"null">>

\* A JSON array or object as a value of a reply (one symbol, no column name;
\* Python reads it as a list or dict, which is not hashable)
JsonList == <<"list">>

\* key in d
HasKey(d, key) ==
    \E i \in 1..Len(d) : d[i][1] = key

\* dict.get(key, default)
DictGet(d, key, default) ==
    IF \E i \in 1..Len(d) : d[i][1] = key
    THEN d[CHOOSE i \in 1..Len(d) : d[i][1] = key][2]
    ELSE default

\* d[key] = value: an existing key keeps its position
DictPut(d, key, value) ==
    IF \E i \in 1..Len(d) : d[i][1] = key
    THEN [i \in 1..Len(d) |-> IF d[i][1] = key THEN <<key, value>> ELSE d[i]]
    ELSE Append(d, <<key, value>>)

\* {**d, **e}
RECURSIVE DictUpdate(_, _)
DictUpdate(d, e) ==
    IF e = <<>> THEN d
    ELSE DictUpdate(DictPut(d, Head(e)[1], Head(e)[2]), Tail(e))

\* self.COLUMN_MAPPINGS.get(data_type, {})
ColumnDefs(data_type) ==
    IF data_type \in DOMAIN COLUMN_MAPPINGS THEN COLUMN_MAPPINGS[data_type] ELSE <<>>

\* col_lower == var_lower or col_no_space == var_no_space
VariationMatches(col, var) ==
    \/ Strip(Lower(col)) = Strip(Lower(var))
    \/ RemoveChar(RemoveChar(Strip(Lower(col)), " "), "_")
         = RemoveChar(RemoveChar(Strip(Lower(var)), " "), "_")

\* The scan of one variations list skips its first entry (an off-by-one).
AnyVariationAfterFirst(col, variations) ==
    \E j \in 2..Len(variations) : VariationMatches(col, variations[j])

\* for var in variations: ... break
AnyVariation(col, variations) ==
    \E j \in 1..Len(variations) : VariationMatches(col, variations[j])

\* for standard_name, variations in column_defs.items(): the first standard
\* name with a matching variation (0: none).
RECURSIVE StandardFrom(_, _, _)
StandardFrom(col, column_defs, i) ==
    IF i > Len(column_defs) THEN 0
    ELSE IF AnyVariation(col, column_defs[i].variations) THEN i
    ELSE StandardFrom(col, column_defs, i + 1)

RECURSIVE RuleBasedFrom(_, _, _, _)
RuleBasedFrom(mapping, columns, column_defs, k) ==
    IF k > Len(columns) THEN mapping
    ELSE RuleBasedFrom(
            IF StandardFrom(columns[k], column_defs, 1) = 0 THEN mapping
            ELSE DictPut(mapping, columns[k],
                         column_defs[StandardFrom(columns[k], column_defs, 1)].standard_name),
            columns, column_defs, k + 1)

\* _rule_based_column_mapping(columns, data_type)
RuleBasedColumnMapping(columns, data_type) ==
    RuleBasedFrom(<<>>, columns, ColumnDefs(data_type), 1)

\* What the inference service sent back: [kind |-> "error"] when the call or
\* the parsing of its text raised, else [kind |-> "json", mapping |-> dict]
\* whose values are names, JsonNull or JsonList.
NoReply == [kind |-> "error"]

\* _ai_column_mapping(unmapped_columns, data_type, sample_data):
\* [mapping, warnings] (the warnings appended to self.warnings).
AiColumnMapping(client, reply) ==
    IF ~client THEN [mapping |-> <<>>, warnings |-> <<>>]
    ELSE IF reply.kind = "error"
    THEN [mapping |-> <<>>, warnings |-> << [kind |-> "ai_mapping_failed"] >>]
    ELSE [mapping |-> SelectSeq(reply.mapping, LAMBDA kv : kv[2] # JsonNull),
          warnings |-> <<>>]

\* The call is made only for a non-empty unmapped list, lines 162-166.
AiMappingStep(original_columns, rule_based_mapping, client, reply) ==
    IF \E i \in 1..Len(original_columns) : ~HasKey(rule_based_mapping, original_columns[i])
    THEN AiColumnMapping(client, reply)
    ELSE [mapping |-> <<>>, warnings |-> <<>>]

\* df.rename(columns=final_mapping)
RenameColumns(columns, final_mapping) ==
    [i \in 1..Len(columns) |-> DictGet(final_mapping, columns[i], columns[i])]

Count(seq, x) ==
    Cardinality({i \in 1..Len(seq) : seq[i] = x})

FirstIndex(seq, x) ==
    CHOOSE i \in 1..Len(seq) : seq[i] = x /\ \A j \in 1..(i - 1) : seq[j] # x

DateColumns ==
    << <<"<jeon>", "<pyo>", "<il>", "<ja>">>, <<"<il>", "<ja>">>, <<"<nal>", "<jja>">> >>

NumericColumns ==
    << <<"<su>", "<ryang>">>, <<"<dan>", "<ga>">>,
       <<"<gong>", "<geub>", "<ga>", "<aeg>">>, <<"<bu>", "<ga>", "<se>">>,
       <<"<hab>", "<gye>", "<geum>", "<aeg>">>,
       <<"<won>", "<hwa>", "<hwan>", "<san>", "<aeg>">>,
       <<"<gi>", "<bon>", "<geub>">>, <<"<ji>", "<geub>", "<chong>", "<aeg>">>,
       <<"<hwan>", "<yul>">> >>

Tagged(kind, columns) ==
    [i \in 1..Len(columns) |-> [kind |-> kind, column |-> columns[i]]]

\* A cell that pd.to_datetime(errors='coerce') turns into NaT
UnreadDate(df, col) ==
    /\ Count(df.columns, col) = 1
    /\ \E r \in 1..Len(df.rows) : df.rows[r][FirstIndex(df.columns, col)] \in {NaN, Text}

\* _normalize_data_types(df, data_type): [df, warnings].  A name carried by
\* two columns makes df[col] a frame: to_datetime and .dtype raise, the
\* exception is caught and the columns stay as they are.  pd.to_datetime and
\* pd.to_numeric with errors='coerce' turn what they cannot read into NaT/NaN.
NormalizeDataTypes(df) ==
    [df |->
        [columns |-> df.columns,
         rows |-> [r \in 1..Len(df.rows) |-> [c \in 1..Len(df.columns) |->
            IF /\ Count(df.columns, df.columns[c]) = 1
               /\ InSeq(df.columns[c], NumericColumns)
               /\ df.rows[r][c] = Text
            THEN NaN
            ELSE IF /\ Count(df.columns, df.columns[c]) = 1
                    /\ InSeq(df.columns[c], DateColumns)
                    /\ df.rows[r][c] \in {NaN, Text}
            THEN NaN
            ELSE df.rows[r][c]]]],
     warnings |->
        Tagged("date", SelectSeq(DateColumns,
                  LAMBDA col : Count(df.columns, col) > 1 \/ UnreadDate(df, col)))
        \o Tagged("numeric", SelectSeq(NumericColumns,
                  LAMBDA col : Count(df.columns, col) > 1))]

\* self.ANOMALY_RULES.get(data_type, {})
AnomalyRules(data_type) ==
    IF data_type \in DOMAIN ANOMALY_RULES THEN ANOMALY_RULES[data_type] ELSE <<>>

\* required_columns of _detect_anomalies
ParserRequiredColumns(data_type) ==
    CASE data_type = "sales" ->
        <<K_JeonPyoIlJa, K_GeoRaeCheoMyeong, K_JePumMyeong, K_WonHwaHwanSanAeg>>
      [] data_type = "purchases" ->
        <<K_JeonPyoIlJa, K_GongGeubEobCheMyeong, K_PumMogMyeong, K_GongGeubGaAeg>>
      [] data_type = "payroll" ->
        <<K_BuSeo, K_GiBonGeub, K_JiGeubChongAeg, K_WonGaGuBun>>
      [] OTHER -> <<>>

\* The columns whose zero cells are reported
ZeroCheckedColumns ==
    << <<"<dan>", "<ga>">>, K_GongGeubGaAeg, K_WonHwaHwanSanAeg >>

Finding(type, column, severity, cells) ==
    [type |-> type, column |-> column, severity |-> severity,
     rows |-> Cardinality({r \in 1..Len(cells) : cells[r]})]

\* col_data: df[col], or the first of the columns of that name
ColData(df, col) ==
    [r \in 1..Len(df.rows) |-> df.rows[r][FirstIndex(df.columns, col)]]

\* The findings of one rule on its column, lines 337-375
RuleFindings(rule, col_data) ==
    (IF \E r \in 1..Len(col_data) : col_data[r].kind = "number" /\ col_data[r].v < 0
     THEN << Finding("negative_value", rule.column, "high",
                     [r \in 1..Len(col_data) |-> col_data[r].kind = "number" /\ col_data[r].v < 0]) >>
     ELSE <<>>)
    \o
    (IF \E r \in 1..Len(col_data) : col_data[r].kind = "number" /\ col_data[r].v > rule.max
     THEN << Finding("value_too_high", rule.column, "medium",
                     [r \in 1..Len(col_data) |-> col_data[r].kind = "number" /\ col_data[r].v > rule.max]) >>
     ELSE <<>>)
    \o
    (IF /\ InSeq(rule.column, ZeroCheckedColumns)
        /\ \E r \in 1..Len(col_data) : col_data[r] = Cell(0)
     THEN << Finding("zero_value", rule.column, "low",
                     [r \in 1..Len(col_data) |-> col_data[r] = Cell(0)]) >>
     ELSE <<>>)

RECURSIVE RulesFindings(_, _, _)
RulesFindings(df, rules, i) ==
    IF i > Len(rules) THEN <<>>
    ELSE (IF InSeq(rules[i].column, df.columns)
          THEN RuleFindings(rules[i], ColData(df, rules[i].column))
          ELSE <<>>)
         \o RulesFindings(df, rules, i + 1)

\* The finding of one required column, lines 384-402
RequiredFinding(df, col) ==
    IF ~InSeq(col, df.columns)
    THEN << [type |-> "missing_column", column |-> col, severity |-> "high", rows |-> 0] >>
    ELSE IF 10 * Cardinality({r \in 1..Len(df.rows) : ColData(df, col)[r] = NaN})
              > Len(df.rows)
    THEN << [type |-> "missing_values", column |-> col, severity |-> "medium",
             rows |-> Cardinality({r \in 1..Len(df.rows) : ColData(df, col)[r] = NaN})] >>
    ELSE <<>>

RECURSIVE RequiredFindings(_, _, _)
RequiredFindings(df, required_columns, i) ==
    IF i > Len(required_columns) THEN <<>>
    ELSE RequiredFinding(df, required_columns[i])
         \o RequiredFindings(df, required_columns, i + 1)

\* _detect_anomalies(df, data_type): [raised, anomalies].  Comparing a column
\* that still holds a string with a number raises TypeError.
DetectAnomalies(df, data_type) ==
    IF \E i \in 1..Len(AnomalyRules(data_type)) :
          /\ InSeq(AnomalyRules(data_type)[i].column, df.columns)
          /\ \E r \in 1..Len(df.rows) :
                ColData(df, AnomalyRules(data_type)[i].column)[r] = Text
    THEN [raised |-> TRUE, anomalies |-> <<>>]
    ELSE [raised |-> FALSE,
          anomalies |-> RulesFindings(df, AnomalyRules(data_type), 1)
                        \o RequiredFindings(df, ParserRequiredColumns(data_type), 1)]

\* len([a for a in anomalies if a['severity'] == severity])
SeverityCount(anomalies, severity) ==
    Len(SelectSeq(anomalies, LAMBDA a : a.severity = severity))

\* A sign slip on the high-severity penalty (score += penalty).
AnomalyPenaltyHighAdded(high, medium, low) ==
    (medium * 5 + low * 2) - high * 10

\* The points taken off for the anomalies, lines 426-439
AnomalyPenalty(high, medium, low) ==
    high * 10 + medium * 5 + low * 2

\* The score before the clamp, as the fraction num / den: 100 less the mapping
\* penalty (80 - mapping_rate) * 0.3 = (24 * n - 30 * m) / n when
\* mapping_rate = m / n * 100 < 80 (mapping_rate is 0 for n = 0), less the
\* anomaly penalty.
UnclampedScore(n, m, penalty) ==
    IF n = 0 THEN [num |-> 76 - penalty, den |-> 1]
    ELSE IF 100 * m < 80 * n
    THEN [num |-> 76 * n + 30 * m - penalty * n, den |-> n]
    ELSE [num |-> (100 - penalty) * n, den |-> n]

\* The clamp left out.
NoClamp(score) ==
    score

\* max(0, min(100, score))
Clamp(score) ==
    IF score.num < 0 THEN [num |-> 0, den |-> score.den]
    ELSE IF score.num > 100 * score.den THEN [num |-> 100 * score.den, den |-> score.den]
    ELSE score

\* round(num / den, 1) in tenths, for num / den >= 0
RoundTenths(num, den) ==
    RoundToQuantum(10 * num, den) \div den

Grade(score) ==
    IF score.num >= 90 * score.den THEN "A"
    ELSE IF score.num >= 70 * score.den THEN "B"
    ELSE IF score.num >= 50 * score.den THEN "C"
    ELSE "D"

QualityOf(score, n, m, high, medium, low) ==
    [score |-> IF score.num < 0 THEN 0 - RoundTenths(0 - score.num, score.den)
               ELSE RoundTenths(score.num, score.den),
     grade |-> Grade(score),
     mapping_rate |-> IF n = 0 THEN 0 ELSE RoundTenths(100 * m, n),
     anomaly_count |-> [high |-> high, medium |-> medium, low |-> low]]

\* _calculate_quality_score(original_columns, mapping, anomalies, data_type);
\* score and mapping_rate are in tenths (round(x, 1)).
CalculateQualityScore(original_columns, mapping, anomalies) ==
    QualityOf(Clamp(UnclampedScore(Len(original_columns), Len(mapping),
                        AnomalyPenalty(SeverityCount(anomalies, "high"),
                                       SeverityCount(anomalies, "medium"),
                                       SeverityCount(anomalies, "low")))),
              Len(original_columns), Len(mapping),
              SeverityCount(anomalies, "high"),
              SeverityCount(anomalies, "medium"),
              SeverityCount(anomalies, "low"))

\* self.COLUMN_MAPPINGS.get(data_type, {}).get(mapped_col, [])
VariationsOf(data_type, mapped_col) ==
    IF \E i \in 1..Len(ColumnDefs(data_type)) :
          ColumnDefs(data_type)[i].standard_name = mapped_col
    THEN ColumnDefs(data_type)[CHOOSE i \in 1..Len(ColumnDefs(data_type)) :
              ColumnDefs(data_type)[i].standard_name = mapped_col].variations
    ELSE <<>>

\* The comparison made with the standard name alone instead of its variations.
ConfidenceOfStandardNameOnly(orig_col, mapped_col, variations) ==
    IF orig_col = mapped_col
    THEN [original |-> orig_col, mapped |-> mapped_col,
          confidence |-> 100, method |-> "exact_match"]
    ELSE [original |-> orig_col, mapped |-> mapped_col,
          confidence |-> 75, method |-> "ai_inference"]

\* One entry of confidence_details, lines 480-495
ConfidenceOf(orig_col, mapped_col, variations) ==
    IF InSeq(orig_col, variations)
    THEN [original |-> orig_col, mapped |-> mapped_col,
          confidence |-> 100, method |-> "exact_match"]
    ELSE IF \E j \in 1..Len(variations) : Lower(orig_col) = Lower(variations[j])
    THEN [original |-> orig_col, mapped |-> mapped_col,
          confidence |-> 95, method |-> "case_insensitive"]
    ELSE [original |-> orig_col, mapped |-> mapped_col,
          confidence |-> 75, method |-> "ai_inference"]

RECURSIVE SumConfidence(_)
SumConfidence(details) ==
    IF details = <<>> THEN 0 ELSE Head(details).confidence + SumConfidence(Tail(details))

\* _calculate_mapping_confidence(original_columns, mapping, data_type);
\* average is in tenths.
CalculateMappingConfidence(mapping, data_type) ==
    [average |-> IF mapping = <<>> THEN 0
                 ELSE RoundTenths(SumConfidence(
                        [i \in 1..Len(mapping) |->
                            ConfidenceOf(mapping[i][1], mapping[i][2],
                                         VariationsOf(data_type, mapping[i][2]))]),
                        Len(mapping)),
     details |-> [i \in 1..Len(mapping) |->
                    ConfidenceOf(mapping[i][1], mapping[i][2],
                                 VariationsOf(data_type, mapping[i][2]))]]

AnalysisFailure(error, warnings) ==
    [result |-> [success |-> FALSE, error |-> error], warnings |-> warnings]

\* The keys of a record of df.to_dict('records'): each column name once
RECURSIVE RecordKeys(_)
RecordKeys(columns) ==
    IF columns = <<>> THEN <<>>
    ELSE IF InSeq(columns[Len(columns)], SubSeq(columns, 1, Len(columns) - 1))
    THEN RecordKeys(SubSeq(columns, 1, Len(columns) - 1))
    ELSE Append(RecordKeys(SubSeq(columns, 1, Len(columns) - 1)), columns[Len(columns)])

\* analyze_excel from line 187 on (of parsed_preview, the first rows of the
\* normalized table, the keys are kept)
AnalysisReturned(warnings, original_columns, final_mapping, data_type, df, anomalies) ==
    [result |->
        [success |-> TRUE,
         original_columns |-> original_columns,
         mapped_columns |-> final_mapping,
         mapping_confidence |-> CalculateMappingConfidence(final_mapping, data_type),
         anomalies |-> anomalies,
         warnings |-> warnings,
         data_quality_score |->
            CalculateQualityScore(original_columns, final_mapping, anomalies),
         row_count |-> Len(df.rows),
         preview_columns |-> RecordKeys(df.columns),
         data |-> df],
     warnings |-> warnings]

\* analyze_excel, lines 178-184: an exception of _detect_anomalies is caught
\* by the except clause of analyze_excel.
AnalysisDetected(warnings, original_columns, final_mapping, data_type, df, detected) ==
    IF detected.raised
    THEN AnalysisFailure("exception", warnings)
    ELSE AnalysisReturned(warnings, original_columns, final_mapping, data_type, df,
                          detected.anomalies)

\* analyze_excel, lines 174-176
AnalysisNormalized(warnings, original_columns, final_mapping, data_type, normalized) ==
    AnalysisDetected(warnings \o normalized.warnings, original_columns, final_mapping,
                     data_type, normalized.df,
                     DetectAnomalies(normalized.df, data_type))

\* final_mapping = {**rule_based_mapping, **ai_mapping}
FinalMapping(rule_based_mapping, ai_mapping) ==
    DictUpdate(rule_based_mapping, ai_mapping)

\* analyze_excel, lines 168-172.  A list or dict among the values of the
\* mapping cannot be a column label or a dict key: the rename, or at the
\* latest the lookup .get(mapped_col, []) of _calculate_mapping_confidence
\* (line 478), raises TypeError, which the except clause of analyze_excel
\* turns into a failure.
AnalysisMapped(warnings, file, data_type, final_mapping) ==
    IF \E i \in 1..Len(final_mapping) : final_mapping[i][2] = JsonList
    THEN AnalysisFailure("exception", warnings)
    ELSE AnalysisNormalized(warnings, file.columns, final_mapping, data_type,
            NormalizeDataTypes([columns |-> RenameColumns(file.columns, final_mapping),
                                rows |-> file.rows]))

\* analyze_excel, lines 161-166
AnalysisRuled(warnings, file, data_type, rule_based_mapping, ai) ==
    AnalysisMapped(warnings \o ai.warnings, file, data_type,
                   FinalMapping(rule_based_mapping, ai.mapping))

\* analyze_excel(file_path, data_type) of a parser whose self.warnings is
\* `warnings`: [result, warnings].  `client` tells whether the parser has an
\* API client and `reply` is what the inference service answers if asked.
AnalyzeExcel(warnings, file, data_type, client, reply) ==
    IF ~file.readable THEN AnalysisFailure("read_error", warnings)
    ELSE IF Len(file.rows) = 0 \/ Len(file.columns) = 0
    THEN AnalysisFailure("empty_file", warnings)
    ELSE AnalysisRuled(warnings, file, data_type,
            RuleBasedColumnMapping(file.columns, data_type),
            AiMappingStep(file.columns, RuleBasedColumnMapping(file.columns, data_type),
                          client, reply))

\* smart_parser.py: valid_types
ParserValidTypes ==
    <<"sales", "purchases", "payroll">>

\* result.pop('data', None)
WithoutData(result) ==
    [k \in DOMAIN result \ {"data"} |-> result[k]]

AnalyzeResponse(status, success, detail, result) ==
    [op |-> "analyze", status |-> status, success |-> success, detail |-> detail,
     result |-> result]

\* POST /api/smart-parser/analyze: a new AISmartParser for each request;
\* result.pop('data') before the result is returned.
AnalyzeRoute(file, data_type, client, reply) ==
    /\ response' =
        IF file.ext \notin AllowedExtensions
        THEN AnalyzeResponse(400, FALSE, "extension", [success |-> FALSE])
        ELSE IF ~InSeq(data_type, ParserValidTypes)
        THEN AnalyzeResponse(400, FALSE, "data_type", [success |-> FALSE])
        ELSE IF AnalyzeExcel(<<>>, file, data_type, client, reply).result.success
        THEN AnalyzeResponse(200, TRUE, "",
                WithoutData(AnalyzeExcel(<<>>, file, data_type, client, reply).result))
        ELSE AnalyzeResponse(400, FALSE, "",
                AnalyzeExcel(<<>>, file, data_type, client, reply).result)
    /\ UNCHANGED <<processors, request>>

\* _calculate_quality_score called with a column list, a mapping and an
\* anomaly list.
ScoreCall(original_columns, mapping, anomalies) ==
    /\ response' = [op |-> "score", status |-> 0, success |-> TRUE,
                    quality |-> CalculateQualityScore(original_columns, mapping, anomalies)]
    /\ UNCHANGED <<processors, request>>

\* _detect_anomalies called with a normalized table.
DetectCall(df, data_type) ==
    /\ response' = [op |-> "detect", status |-> 0,
                    success |-> ~DetectAnomalies(df, data_type).raised,
                    anomalies |-> DetectAnomalies(df, data_type).anomalies]
    /\ UNCHANGED <<processors, request>>

\* _rule_based_column_mapping called with a column list, and
\* _calculate_mapping_confidence with the mapping it returned.
ResolveCall(columns, data_type) ==
    /\ response' = [op |-> "resolve", status |-> 0, success |-> TRUE,
                    mapping |-> RuleBasedColumnMapping(columns, data_type),
                    confidence |-> CalculateMappingConfidence(
                        RuleBasedColumnMapping(columns, data_type), data_type)]
    /\ UNCHANGED <<processors, request>>
----------------------------------------------------------------------------
\* Specifications.

\* No upload is waiting: in these specifications every request runs to
\* completion before the next.
NoInflight ==
    [before |-> <<>>, tasks |-> <<>>, orphans |-> <<>>]

Init ==
    /\ processors = <<>>
    /\ request = [op |-> "none"]
    /\ response = [op |-> "none", status |-> 0, success |-> FALSE]
    /\ inflight = NoInflight

StoreUpload ==
    /\ \E inp \in StoreUploads : UploadErpFile(inp)
    /\ UNCHANGED inflight

AmountUpload ==
    /\ \E inp \in AmountUploads : UploadErpFile(inp)
    /\ UNCHANGED inflight

Status ==
    /\ \E sid \in SessionIds : GetSessionStatus(sid)
    /\ UNCHANGED inflight

Generate ==
    /\ \E sid \in SessionIds : GenerateIncomeStatementRoute(sid)
    /\ UNCHANGED inflight

Delete ==
    /\ \E sid \in SessionIds : DeleteSession(sid)
    /\ UNCHANGED inflight

StoreQuick ==
    /\ \E files \in StoreQuickFiles : QuickGenerate(files)
    /\ UNCHANGED inflight

AmountQuick ==
    /\ \E files \in AmountQuickFiles : QuickGenerate(files)
    /\ UNCHANGED inflight

\* The session store under every labelling of the uploads.
Next ==
    \/ StoreUpload
    \/ Status
    \/ Generate
    \/ Delete
    \/ StoreQuick

Spec ==
    Init /\ [][Next]_vars

\* The synthesis under every content of the uploads.
SynthNext ==
    \/ AmountUpload
    \/ Status
    \/ Generate
    \/ Delete
    \/ AmountQuick

SynthSpec ==
    Init /\ [][SynthNext]_vars

\* One quick_generate request (a request reads and writes no session, so
\* one request per behaviour shows every statement).
StatementQuick ==
    /\ response.op = "none"
    /\ \E files \in StatementQuickFiles : QuickGenerate(files)
    /\ UNCHANGED inflight

\* generate_income_statement on every content of the files of a request.
StatementNext ==
    StatementQuick

StatementSpec ==
    Init /\ [][StatementNext]_vars

----------------------------------------------------------------------------
\* The sheets, replies and calls the model enumerates for the parser.

Sheet(columns, rows) ==
    [ext |-> ".xlsx", readable |-> TRUE, columns |-> columns, rows |-> rows]

\* For every data type and every declared variation, a sheet whose only
\* column carries that variation.
VariantSheets ==
    UNION { UNION { { [file |-> Sheet(<<COLUMN_MAPPINGS[t][i].variations[j]>>,
                                      << <<Cell(1)>> >>),
                       data_type |-> t]
                     : j \in 1..Len(COLUMN_MAPPINGS[t][i].variations) }
                   : i \in 1..Len(COLUMN_MAPPINGS[t]) }
           : t \in DOMAIN COLUMN_MAPPINGS }

\* Sales sheets whose labels differ from a variation by case, surrounding
\* spaces, inner spaces or underscores: unit_price, " Date ", DATE,
\* "Unit  Price", item_code, QTY
LabelSheets ==
    { [file |-> Sheet(<<label>>, << <<Cell(1)>> >>), data_type |-> "sales"] :
        label \in { <<"u", "n", "i", "t", "_", "p", "r", "i", "c", "e">>,
                    <<" ", "D", "a", "t", "e", " ">>,
                    <<"D", "A", "T", "E">>,
                    <<"U", "n", "i", "t", " ", " ", "P", "r", "i", "c", "e">>,
                    <<"i", "t", "e", "m", "_", "c", "o", "d", "e">>,
                    <<"Q", "T", "Y">> } }

\* A sales ledger with the columns 일자, 금액, 매출액, 메모: 금액 and 매출액
\* are both variations of 공급가액, 메모 is no variation of anything.
LedgerColumns ==
    << <<"<il>", "<ja>">>, <<"<geum>", "<aeg>">>, <<"<mae>", "<chul>", "<aeg>">>,
       <<"<me>", "<mo>">> >>

LedgerSheets ==
    { [file |-> Sheet(LedgerColumns, << <<Cell(1), a, b, Text>> >>),
       data_type |-> t] :
        a \in {Cell(1), Cell(0), Cell(0 - 1), Text},
        b \in {Cell(1), Cell(0 - 1), NaN},
        t \in {"sales", "purchases"} }

\* What the inference service may answer for a ledger: nothing usable, an
\* empty object, a name for 메모, null for 메모, a name for 메모 and another
\* name for the resolved 일자, a name for a column the sheet does not have,
\* a name that is no standard name, a list in place of a name.
Replies ==
    { NoReply,
      [kind |-> "json", mapping |-> <<>>],
      [kind |-> "json", mapping |-> << << <<"<me>", "<mo>">>, K_JePumMyeong >> >>],
      [kind |-> "json", mapping |-> << << <<"<me>", "<mo>">>, JsonNull >> >>],
      [kind |-> "json", mapping |->
          << << <<"<il>", "<ja>">>, <<"<jeon>", "<pyo>", "<beon>", "<ho>">> >>,
             << <<"<me>", "<mo>">>, K_JePumMyeong >> >>],
      [kind |-> "json", mapping |-> << << <<"<bi>", "<go>">>, K_JePumMyeong >> >>],
      [kind |-> "json", mapping |-> << << <<"<me>", "<mo>">>, <<"n", "o", "t", "e">> >> >>],
      [kind |-> "json", mapping |-> << << <<"<me>", "<mo>">>, JsonList >> >>] }

\* Requests the route refuses or whose sheet cannot be analysed.
RefusedSheets ==
    { [file |-> [Sheet(LedgerColumns, << <<Cell(1), Cell(1), Cell(1), Text>> >>)
                    EXCEPT !.ext = ".csv"], data_type |-> "sales"],
      [file |-> Sheet(LedgerColumns, << <<Cell(1), Cell(1), Cell(1), Text>> >>),
       data_type |-> "inventory"],
      [file |-> Sheet(LedgerColumns, <<>>), data_type |-> "sales"],
      [file |-> [Sheet(<<>>, <<>>) EXCEPT !.readable = FALSE], data_type |-> "sales"] }

\* Largest column list, and most findings of each severity, of a score call
MaxObserved == 23
MaxHigh == 7
MaxMedium == 1
MaxLow == 4

\* n distinct column names
SomeColumns(n) ==
    [i \in 1..n |-> [j \in 1..i |-> "c"]]

\* A mapping of m columns
SomeMapping(m) ==
    [i \in 1..m |-> << [j \in 1..i |-> "c"], K_SuRyang >>]

SomeAnomalies(high, medium, low) ==
    [i \in 1..(high + medium + low) |->
        [type |-> "finding", column |-> <<>>, rows |-> 0,
         severity |-> IF i <= high THEN "high"
                      ELSE IF i <= high + medium THEN "medium" ELSE "low"]]

\* Normalized tables handed to _detect_anomalies: one or two columns named
\* 공급가액, or 수량 and 공급가액, with one row, and one column with three rows.
DetectTables ==
    { [columns |-> cols, rows |-> <<row>>] :
        cols \in { <<K_GongGeubGaAeg, K_GongGeubGaAeg>>, <<K_SuRyang, K_GongGeubGaAeg>> },
        row \in { <<a, b>> : a \in {Cell(0 - 1), Cell(0), Cell(2), NaN, Text},
                             b \in {Cell(0 - 1), Cell(0), Cell(2), NaN} } }
    \cup
    { [columns |-> <<K_GongGeubGaAeg>>, rows |-> rows] :
        rows \in { << <<a>>, <<b>>, <<c>> >> :
                     a \in {Cell(0 - 1), Cell(1)},
                     b \in {Cell(0 - 1), Cell(1), NaN},
                     c \in {Cell(0 - 1), Cell(100001)} } }

\* The calls of the parser: each behaviour starts with one of them pending.
AnalyzeRequests ==
    { [op |-> "analyze", file |-> u.file, data_type |-> u.data_type,
       client |-> FALSE, reply |-> NoReply] :
        u \in LabelSheets \cup RefusedSheets }
    \cup
    { [op |-> "analyze", file |-> u.file, data_type |-> u.data_type,
       client |-> client, reply |-> reply] :
        u \in LedgerSheets, client \in BOOLEAN, reply \in Replies }

\* A score call is given by the sizes of its three arguments.
ScoreRequests ==
    { [op |-> "score", observed |-> c[1], mapped |-> c[2],
       high |-> c[3], medium |-> c[4], low |-> c[5]] :
        c \in { d \in (0..MaxObserved) \X (0..(MaxObserved + 1)) \X (0..MaxHigh)
                        \X (0..MaxMedium) \X (0..MaxLow) : d[2] <= d[1] + 1 } }

DetectRequests ==
    { [op |-> "detect", df |-> df, data_type |-> data_type] :
        df \in DetectTables, data_type \in {"sales", "payroll"} }

ResolveRequests ==
    { [op |-> "resolve", columns |-> u.file.columns, data_type |-> u.data_type] :
        u \in VariantSheets \cup LabelSheets }
    \cup
    { [op |-> "resolve", columns |-> LedgerColumns, data_type |-> t] :
        t \in {"sales", "purchases", "payroll", "inventory"} }

ParserInit ==
    /\ processors = <<>>
    /\ \/ request \in AnalyzeRequests \cup ResolveRequests \cup DetectRequests
       \/ request \in ScoreRequests
    /\ response = [op |-> "none", status |-> 0, success |-> FALSE]
    /\ inflight = NoInflight

Analyze ==
    /\ request.op = "analyze"
    /\ response.op = "none"
    /\ AnalyzeRoute(request.file, request.data_type, request.client, request.reply)
    /\ UNCHANGED inflight

Resolve ==
    /\ request.op = "resolve"
    /\ response.op = "none"
    /\ ResolveCall(request.columns, request.data_type)
    /\ UNCHANGED inflight

Score ==
    /\ request.op = "score"
    /\ response.op = "none"
    /\ ScoreCall(SomeColumns(request.observed), SomeMapping(request.mapped),
                 SomeAnomalies(request.high, request.medium, request.low))
    /\ UNCHANGED inflight

Detect ==
    /\ request.op = "detect"
    /\ response.op = "none"
    /\ DetectCall(request.df, request.data_type)
    /\ UNCHANGED inflight

\* The parser under every declared variation, a ledger with colliding and
\* unknown columns, and direct calls of its scoring and detection.
ParserNext ==
    \/ Analyze
    \/ Resolve
    \/ Score
    \/ Detect

ParserSpec ==
    ParserInit /\ [][ParserNext]_vars

----------------------------------------------------------------------------
\* Uploads that overlap.  upload_erp_file is a coroutine on the event loop
\* of one thread: it runs without interruption up to `await file.read()`
\* (line 143), where other requests may run, and from there to its return
\* without interruption (load_excel and the reads of processor.data are
\* synchronous).  get_session_status has no await.

Tasks ==
    {"first", "second"}

IdleTask ==
    [stage |-> "idle"]

\* Files of the overlapping uploads: two sales tables, a purchases table, a
\* purchases file without its last required column, another extension.
ConcFiles ==
    { CanonicalFile("sales", ScenarioDataset("sales")),
      CanonicalFile("sales", OtherDataset("sales")),
      CanonicalFile("purchases", ScenarioDataset("purchases")),
      DropColumn(BuildFile("purchases", ObservedHeader("purchases", "synonym"),
                           ScenarioDataset("purchases")),
                 Len(GetRequiredColumns("purchases"))),
      [CanonicalFile("sales", ScenarioDataset("sales")) EXCEPT !.ext = ".csv"] }

ConcUploads ==
    { u \in StoreUploads : u.file \in ConcFiles /\ u.column_mapping = NoMapping }

\* The store once upload `inp` to session sid has run to completion.
StoreAfter(store, sid, inp) ==
    Put(store, sid,
        [(IF sid \in DOMAIN store THEN store[sid] ELSE NewProcessor) EXCEPT
            !.data = LoadExcel((IF sid \in DOMAIN store THEN store[sid]
                                ELSE NewProcessor).data,
                               inp.file, inp.data_type, inp.column_mapping).data])

\* The stores the overlapping uploads may find: no session, a session that
\* holds a sales table, a session that holds a sales and a payroll table.
PriorStores ==
    { <<>>,
      StoreAfter(<<>>, "s1",
                 UploadInput("s1", "sales",
                             CanonicalFile("sales", OtherDataset("sales")), NoMapping)),
      StoreAfter(StoreAfter(<<>>, "s1",
                            UploadInput("s1", "sales",
                                        CanonicalFile("sales", OtherDataset("sales")),
                                        NoMapping)),
                 "s1",
                 UploadInput("s1", "payroll",
                             CanonicalFile("payroll", ScenarioDataset("payroll")),
                             NoMapping)) }

\* upload_erp_file, lines 84-143: the two validations answer at once; an
\* upload that passes them finds or creates its session's processor (lines
\* 131-137) and waits for the bytes of its file.  `met` records the uploads
\* that were waiting when this one began.
UploadBegin(k, inp) ==
    /\ inflight.tasks[k].stage = "idle"
    /\ IF inp.file.ext \notin AllowedExtensions \/ ~InSeq(inp.data_type, ValidTypes)
       THEN /\ UploadErpFile(inp)
            /\ inflight' = [inflight EXCEPT !.tasks[k] =
                                [stage |-> "done", inp |-> inp, sid |-> inp.session_id,
                                 status |-> 400, met |-> {}]]
       ELSE \E sid \in (IF inp.session_id = NoSessionId
                        THEN SessionIds \ DOMAIN processors
                        ELSE {inp.session_id}) :
                /\ processors' = Put(processors, sid, SessionProcessor(sid))
                /\ inflight' = [inflight EXCEPT !.tasks[k] =
                                    [stage |-> "reading", inp |-> inp, sid |-> sid,
                                     status |-> 0,
                                     met |-> {j \in Tasks :
                                                inflight.tasks[j].stage = "reading"}]]
                /\ UNCHANGED <<request, response>>

\* A resumed upload that loads into the data the store held before the
\* uploads began and writes the whole of it back.
UploadFinishFromSnapshot(k) ==
    /\ inflight.tasks[k].stage = "reading"
    /\ request' = [op |-> "upload", session_id |-> inflight.tasks[k].inp.session_id,
                   data_type |-> inflight.tasks[k].inp.data_type,
                   file |-> inflight.tasks[k].inp.file,
                   column_mapping |-> inflight.tasks[k].inp.column_mapping]
    /\ UploadLoaded(inflight.tasks[k].sid, inflight.tasks[k].inp.data_type,
                    LoadExcel((IF inflight.tasks[k].sid \in DOMAIN inflight.before
                               THEN inflight.before[inflight.tasks[k].sid]
                               ELSE NewProcessor).data,
                              inflight.tasks[k].inp.file,
                              inflight.tasks[k].inp.data_type,
                              inflight.tasks[k].inp.column_mapping))
    /\ inflight' = [inflight EXCEPT !.tasks[k].stage = "done",
                                    !.tasks[k].status = response'.status]

\* upload_erp_file, lines 143-171: the upload resumes, load_excel loads the
\* file into the processor taken at line 137 and the response is built.  No
\* session is deleted while an upload waits, so that processor is still
\* processors[sid].
UploadFinish(k) ==
    /\ inflight.tasks[k].stage = "reading"
    /\ request' = [op |-> "upload", session_id |-> inflight.tasks[k].inp.session_id,
                   data_type |-> inflight.tasks[k].inp.data_type,
                   file |-> inflight.tasks[k].inp.file,
                   column_mapping |-> inflight.tasks[k].inp.column_mapping]
    /\ UploadToSession(inflight.tasks[k].sid, inflight.tasks[k].inp)
    /\ inflight' = [inflight EXCEPT !.tasks[k].stage = "done",
                                    !.tasks[k].status = response'.status]

ConcInit ==
    /\ processors \in PriorStores
    /\ request = [op |-> "none"]
    /\ response = [op |-> "none", status |-> 0, success |-> FALSE]
    /\ inflight = [before |-> processors, tasks |-> [k \in Tasks |-> IdleTask],
                   orphans |-> <<>>]

Begin ==
    \E k \in Tasks, inp \in ConcUploads : UploadBegin(k, inp)

Finish ==
    \E k \in Tasks : UploadFinish(k)

\* Two uploads and status queries in every interleaving.
ConcNext ==
    \/ Begin
    \/ Finish
    \/ Status

ConcSpec ==
    ConcInit /\ [][ConcNext]_vars

----------------------------------------------------------------------------
\* Uploads that overlap with a delete.  An upload that waits at line 143
\* holds the processor it took from the store at line 137; `del
\* processors[session_id]` (line 297) removes the store's reference and the
\* upload keeps its own.  inflight.orphans are the processors that are held
\* by waiting uploads only.

\* The uploads that wait with the processor of session sid
WaitingOn(sid) ==
    {k \in Tasks : inflight.tasks[k].stage = "reading" /\ inflight.tasks[k].sid = sid}

\* inflight once the processor of session sid has left the store
Detached(sid) ==
    IF WaitingOn(sid) = {}
    THEN inflight
    ELSE [inflight EXCEPT
            !.orphans = Append(@, processors[sid]),
            !.tasks = [k \in Tasks |->
                IF k \in WaitingOn(sid)
                THEN [stage |-> "detached", inp |-> inflight.tasks[k].inp,
                      sid |-> sid, status |-> 0, met |-> inflight.tasks[k].met,
                      orphan |-> Len(inflight.orphans) + 1]
                ELSE inflight.tasks[k]]]

\* DELETE /session/{session_id} while uploads may be waiting
DeleteSessionWaited(session_id) ==
    /\ DeleteSession(session_id)
    /\ inflight' = IF session_id \in DOMAIN processors
                   THEN Detached(session_id)
                   ELSE inflight

\* upload_erp_file, lines 143-171, of an upload whose session was deleted
\* while it waited: load_excel loads the file into the processor the upload
\* holds, and the response is built from it; the store is not touched.
UploadFinishDetached(k) ==
    /\ inflight.tasks[k].stage = "detached"
    /\ request' = [op |-> "upload", session_id |-> inflight.tasks[k].inp.session_id,
                   data_type |-> inflight.tasks[k].inp.data_type,
                   file |-> inflight.tasks[k].inp.file,
                   column_mapping |-> inflight.tasks[k].inp.column_mapping]
    /\ LET task == inflight.tasks[k]
           processor == inflight.orphans[task.orphan]
           loaded == LoadExcel(processor.data, task.inp.file, task.inp.data_type,
                               task.inp.column_mapping)
       IN  /\ response' =
                IF ~loaded.result.success
                THEN UploadResponse(400, FALSE, "", task.sid, loaded.result, <<>>, <<>>)
                ELSE UploadResponse(200, TRUE, "", task.sid, loaded.result,
                                    Preview(loaded.data[task.inp.data_type].rows),
                                    LoadedTypes(loaded.data))
           /\ inflight' = [inflight EXCEPT
                    !.orphans[task.orphan] = [processor EXCEPT !.data = loaded.data],
                    !.tasks[k] = [stage |-> "done", inp |-> task.inp, sid |-> task.sid,
                                  status |-> IF loaded.result.success THEN 200 ELSE 400,
                                  met |-> task.met]]
    /\ UNCHANGED processors

FinishDetached ==
    \E k \in Tasks : UploadFinishDetached(k)

DeleteWaited ==
    \E sid \in SessionIds : DeleteSessionWaited(sid)

\* Two uploads, status queries, syntheses and deletes in every interleaving.
RaceNext ==
    \/ Begin
    \/ Finish
    \/ FinishDetached
    \/ Status
    \/ Generate
    \/ DeleteWaited

RaceSpec ==
    ConcInit /\ [][RaceNext]_vars

----------------------------------------------------------------------------
\* Properties of the synthesis (under SynthSpec).

\* The last request was a synthesis that returned a statement.
Synthesized ==
    response.op \in {"generate", "quick_generate"} /\ response.success

Statement ==
    response.result.income_statement

\* The frames quick_generate loads from files that carry canonical labels.
QuickData(files) ==
    [t \in DataTypes |->
        IF files[t] = None
        THEN None
        ELSE DataFrame(files[t].columns, files[t].rows, files[t].dtype)]

\* The six slots the last synthesis read.
SynthesisData ==
    IF request.op = "generate"
    THEN processors[request.session_id].data
    ELSE QuickData(request.files)

\* C1: in every statement generate_income_statement returns, whichever
\* datasets are present and whatever amounts they hold, the cost of goods
\* sold total plus the gross profit equals the revenue total exactly.
AccountingIdentityExact ==
    Synthesized =>
        Statement.cost_of_goods_sold.total + Statement.gross_profit
            = Statement.revenue.total

\* df[label].sum() of a dataset, 0 when the dataset is absent.
DatasetTotal(df, label) ==
    IF df = None THEN Zero ELSE SumColumn(df, label)

\* The sum of `label` over the rows of df whose `key` is `value`.
PartTotal(df, key, value, label) ==
    IF df = None THEN Zero ELSE SumColumn(FilterRows(df, key, value), label)

\* ending - beginning of one inventory class, 0 when inventory is absent.
InventoryDelta(df, class) ==
    IF df = None
    THEN Zero
    ELSE NSub(PartTotal(df, K_PumMogBunRyu, class, K_GiMalGeumAeg),
              PartTotal(df, K_PumMogBunRyu, class, K_GiChoGeumAeg))

RawMaterialUsed(data) ==
    NSub(DatasetTotal(data["purchases"], K_GongGeubGaAeg),
         InventoryDelta(data["inventory"], RawMaterialClass))

ExpectedManufacturingCost(data) ==
    NSub(NAdd(NAdd(RawMaterialUsed(data),
                   PartTotal(data["payroll"], K_WonGaGuBun, DirectLaborFlag,
                             K_JiGeubChongAeg)),
              DatasetTotal(data["mfg_expenses"], K_ChaByeonGeumAeg)),
         InventoryDelta(data["inventory"], WorkInProgressClass))

ExpectedCogs(data) ==
    NSub(ExpectedManufacturingCost(data),
         InventoryDelta(data["inventory"], ProductClass))

ExpectedGrossProfit(data) ==
    NSub(DatasetTotal(data["sales"], K_WonHwaHwanSanAeg), ExpectedCogs(data))

ExpectedSgTotal(data) ==
    NAdd(DatasetTotal(data["sg_expenses"], K_ChaByeonGeumAeg),
         PartTotal(data["payroll"], K_WonGaGuBun, IndirectLaborFlag, K_JiGeubChongAeg))

ExpectedOperatingProfit(data) ==
    NSub(ExpectedGrossProfit(data), ExpectedSgTotal(data))

\* The six slots hold the end-to-end scenario (amounts in units of 10,000
\* won): revenue 100, purchases 40, raw material 5 -> 7, direct labour 15,
\* indirect labour 5, overhead 10, SG&A 8, no WIP or finished-goods change.
ScenarioLoaded(data) ==
    \A t \in DataTypes :
        /\ data[t] # None
        /\ data[t].rows = ScenarioDataset(t).rows
        /\ data[t].dtype = "int64"

\* C2: the statement's raw material used, cost of goods sold, gross profit,
\* SG&A total and operating profit are the stated formulas of the dataset
\* totals (each inventory delta 0 when inventory is absent), and the
\* end-to-end scenario gives COGS 63, gross profit 37, SG&A total 13 and
\* operating profit 24 (630,000 / 370,000 / 130,000 / 240,000 won).
StatementFormulas ==
    Synthesized =>
        /\ Statement.cost_of_goods_sold.breakdown.raw_materials
                = SanitizeNumber(RawMaterialUsed(SynthesisData))
        /\ Statement.cost_of_goods_sold.total = SanitizeNumber(ExpectedCogs(SynthesisData))
        /\ Statement.gross_profit = SanitizeNumber(ExpectedGrossProfit(SynthesisData))
        /\ Statement.selling_admin_expenses.total
                = SanitizeNumber(ExpectedSgTotal(SynthesisData))
        /\ Statement.operating_profit
                = SanitizeNumber(ExpectedOperatingProfit(SynthesisData))
        /\ ScenarioLoaded(SynthesisData) =>
                /\ Statement.revenue.total = 100
                /\ Statement.cost_of_goods_sold.total = 63
                /\ Statement.gross_profit = 37
                /\ Statement.selling_admin_expenses.total = 13
                /\ Statement.operating_profit = 24

\* The session route has synthesized the end-to-end scenario.
ScenarioSynthesized ==
    /\ request.op = "generate"
    /\ response.success
    /\ ScenarioLoaded(SynthesisData)
    /\ Statement.cost_of_goods_sold.breakdown.raw_materials = 38

\* What generate_income_statement is to report about absent dataset t.
AbsenceNote(t) ==
    CASE t = "payroll" -> "no_payroll_data"
      [] t = "mfg_expenses" -> "no_mfg_expenses_data"
      [] t = "inventory" -> "no_inventory_data"
      [] t = "sg_expenses" -> "no_sg_expenses_data"

\* C9: a synthesis with sales and purchases present succeeds, and each of
\* payroll, manufacturing overhead, SG&A and inventory that is absent
\* contributes 0 and is reported in the result's warnings, not its errors.
AbsentOptionalIsWarned ==
    /\ (/\ request.op = "generate"
        /\ request.session_id \in DOMAIN processors
        /\ processors[request.session_id].data["sales"] # None
        /\ processors[request.session_id].data["purchases"] # None
        /\ processors[request.session_id].data["inventory"] = None)
            => response.success
    /\ Synthesized =>
            \A t \in OptionalTypes :
                SynthesisData[t] = None =>
                    /\ InSeq(AbsenceNote(t), response.result.warnings)
                    /\ ~InSeq(AbsenceNote(t), response.result.errors)

----------------------------------------------------------------------------
\* Properties of the session store (under Spec).

\* The last request was an upload that got as far as the column
\* resolution of load_excel.
ResolutionReached ==
    /\ request.op = "upload"
    /\ request.file.ext \in AllowedExtensions
    /\ InSeq(request.data_type, ValidTypes)
    /\ request.file.readable
    /\ ~IsEmptyFrame(request.file)

\* The labels of the uploaded table after the caller's mapping.
MappedLabels ==
    ApplyColumnMapping(request.file.columns, request.column_mapping)

\* Label col resolves required field req_col: by its exact name, by its
\* name without case, spaces and underscores, or by the synonym dictionary.
Resolves(col, req_col) ==
    \/ col = req_col
    \/ NormalizeName(col) = NormalizeName(req_col)
    \/ IsAlternative(col, SynonymsOf(req_col))

\* The required fields of data_type that no label resolves.
UnresolvedFields(columns, data_type) ==
    LET req == GetRequiredColumns(data_type)
    IN  {req[i] : i \in {j \in 1..Len(req) :
                            \A k \in 1..Len(columns) : ~Resolves(columns[k], req[j])}}

UnresolvedTable ==
    [k \in ResolveKeys |-> UnresolvedFields(k[1], k[2])]

UnresolvedOnce(columns, data_type) ==
    IF <<columns, data_type>> \in ResolveKeys
    THEN UnresolvedTable[<<columns, data_type>>]
    ELSE UnresolvedFields(columns, data_type)

Elements(s) ==
    {s[i] : i \in 1..Len(s)}

AcceptedUploadReplacesSlot ==
    [][(request'.op = "upload" /\ response'.success) =>
            LET sid == response'.session_id
                T == request'.data_type
                file == request'.file
                df == processors'[sid].data[T]
                mapped == ApplyColumnMapping(file.columns, request'.column_mapping)
            IN  /\ df # None
                /\ df.rows = file.rows
                /\ df.dtype = file.dtype
                /\ Len(df.columns) = Len(file.columns)
                /\ \A i \in 1..Len(df.columns) :
                        \/ df.columns[i] = mapped[i]
                        \/ InSeq(df.columns[i], GetRequiredColumns(T))
                /\ \A t \in DataTypes \ {T} :
                        processors'[sid].data[t] =
                            IF sid \in DOMAIN processors
                            THEN processors[sid].data[t]
                            ELSE None
                /\ \A s \in DOMAIN processors \ {sid} :
                        s \in DOMAIN processors' /\ processors'[s] = processors[s]]_vars

\* A sales table was accepted by a session that had already synthesized
\* (so its sales slot held a table before), and the slot holds the new rows.
SalesReuploaded ==
    /\ request.op = "upload"
    /\ response.success
    /\ request.data_type = "sales"
    /\ processors[response.session_id].errors # <<>>
    /\ processors[response.session_id].data["sales"].rows = OtherDataset("sales").rows

\* C5: when some required field of the type is resolved by no label of the
\* uploaded table (exact, normalised, synonym, after the caller's mapping),
\* the upload is rejected and the rejection names exactly the unresolved
\* required fields.  (The code names them in its error message, which the
\* model keeps as the list `missing`.)
MissingFieldsNamed ==
    ResolutionReached =>
        LET unresolved == UnresolvedOnce(MappedLabels, request.data_type)
        IN  /\ unresolved # {} =>
                    /\ ~response.success
                    /\ response.status = 400
                    /\ response.error = "missing_columns"
                    /\ Elements(response.missing) = unresolved
                    /\ Len(response.missing) = Cardinality(unresolved)
            /\ unresolved = {} => response.missing = <<>>

\* An upload was rejected that lacks two required fields and carries the
\* others under synonyms.
TwoFieldsMissing ==
    /\ ResolutionReached
    /\ Len(response.missing) = 2
    /\ \E k \in 1..Len(request.file.columns) :
            ~InSeq(request.file.columns[k], GetRequiredColumns(request.data_type))

\* C6: the column list returned with a missing-field rejection is the set of
\* column names observed in the uploaded table.
FoundColumnsAreObserved ==
    (request.op = "upload" /\ response.error = "missing_columns") =>
        Elements(response.found_columns) = Elements(request.file.columns)

\* C7: every non-empty slot of type T holds a table whose columns include
\* every required field of T.
RequiredColumnsStored ==
    \A sid \in DOMAIN processors :
        \A t \in DataTypes :
            processors[sid].data[t] # None =>
                \A i \in 1..Len(GetRequiredColumns(t)) :
                    InSeq(GetRequiredColumns(t)[i], processors[sid].data[t].columns)

\* A table uploaded under other labels, one of them named by the caller's
\* mapping, is held by its slot.
MappedUploadStored ==
    /\ request.op = "upload"
    /\ response.success
    /\ request.column_mapping # NoMapping
    /\ processors[response.session_id].data[request.data_type].columns
            # request.file.columns

\* The sales file of a quick_generate request cannot be loaded.
SalesNotLoadable(files) ==
    \/ files["sales"] = None
    \/ ~files["sales"].readable
    \/ IsEmptyFrame(files["sales"])
    \/ UnresolvedOnce(files["sales"].columns, "sales") # {}

\* C8: with the sales slot empty, a synthesis fails with the
\* missing-minimum-data error (status 400) and returns no statement,
\* whatever the other slots hold.
NoSalesNoStatement ==
    /\ (/\ request.op = "generate"
        /\ request.session_id \in DOMAIN processors
        /\ processors[request.session_id].data["sales"] = None)
            => /\ response.status = 400
               /\ ~response.success
               /\ response.detail = "sales_data_required"
               /\ response.result = NoResult
    /\ (request.op = "quick_generate" /\ SalesNotLoadable(request.files))
            => /\ response.status = 400
               /\ ~response.success
               /\ response.detail = "sales_file_required"
               /\ response.result = NoResult

\* A synthesis was refused for a session that holds purchases but no sales.
RefusedWithoutSales ==
    /\ request.op = "generate"
    /\ request.session_id \in DOMAIN processors
    /\ processors[request.session_id].data["sales"] = None
    /\ processors[request.session_id].data["purchases"] # None
    /\ response.status = 400

\* C10: for an existing session the status query's loaded and missing
\* types partition the six types and are the non-empty and the empty slots;
\* can_generate_basic holds iff sales and purchases are loaded, and
\* ready_for_processing iff all six are.
StatusMatchesSlots ==
    (request.op = "status" /\ request.session_id \in DOMAIN processors) =>
        LET data == processors[request.session_id].data
            loaded == {response.loaded_data[i].type : i \in 1..Len(response.loaded_data)}
            missing == Elements(response.missing_data)
        IN  /\ response.success
            /\ loaded = {t \in DataTypes : data[t] # None}
            /\ missing = {t \in DataTypes : data[t] = None}
            /\ loaded \cap missing = {}
            /\ loaded \cup missing = DataTypes
            /\ Len(response.loaded_data) = Cardinality(loaded)
            /\ Len(response.missing_data) = Cardinality(missing)
            /\ response.can_generate_basic
                    <=> (data["sales"] # None /\ data["purchases"] # None)
            /\ response.ready_for_processing
                    <=> (\A t \in DataTypes : data[t] # None)

\* The status of a session that holds sales and purchases only.
StatusOfMinimumSession ==
    /\ request.op = "status"
    /\ response.success
    /\ Elements(response.missing_data)
            = {"payroll", "mfg_expenses", "inventory", "sg_expenses"}
    /\ response.can_generate_basic
    /\ ~response.ready_for_processing

----------------------------------------------------------------------------
\* Properties of the parser (under ParserSpec).

\* _calculate_quality_score has returned.
Scored ==
    request.op = "score" /\ response.op = "score"

ObservedCount == request.observed
MappedCount == request.mapped
HighCount == request.high
MediumCount == request.medium
LowCount == request.low

\* ObservedCount times 100 - P - 10 * high - 5 * medium - 2 * low, where
\* P = (80 - mapping_rate) * 0.3 if mapping_rate = mapped / observed * 100 is
\* below 80 and P = 0 otherwise.
FormulaTimesObserved ==
    IF 100 * MappedCount < 80 * ObservedCount
    THEN 100 * ObservedCount - (24 * ObservedCount - 30 * MappedCount)
            - (10 * HighCount + 5 * MediumCount + 2 * LowCount) * ObservedCount
    ELSE 100 * ObservedCount
            - (10 * HighCount + 5 * MediumCount + 2 * LowCount) * ObservedCount

\* ObservedCount times the formula clamped to [0, 100]
ClampedTimesObserved ==
    IF FormulaTimesObserved < 0 THEN 0
    ELSE IF FormulaTimesObserved > 100 * ObservedCount THEN 100 * ObservedCount
    ELSE FormulaTimesObserved

\* C12 (as stated): the returned score equals
\* clamp(100 - P - 10*high - 5*medium - 2*low, 0, 100) and lies within
\* [0, 100], for every mapping and every anomaly list.  (The score is kept
\* in tenths.)
ScoreIsClampedFormula ==
    Scored =>
        /\ response.quality.score >= 0
        /\ response.quality.score <= 1000
        /\ ObservedCount > 0 =>
                response.quality.score * ObservedCount = 10 * ClampedTimesObserved

\* C12 (amended): the returned score is that clamped value rounded to one
\* decimal place, so it differs from it by at most 0.05, and it lies within
\* [0, 100] for every mapping and every anomaly list.
ScoreIsRoundedClampedFormula ==
    Scored =>
        /\ response.quality.score >= 0
        /\ response.quality.score <= 1000
        /\ ObservedCount > 0 =>
            /\ 2 * (response.quality.score * ObservedCount - 10 * ClampedTimesObserved)
                    <= ObservedCount
            /\ 2 * (10 * ClampedTimesObserved - response.quality.score * ObservedCount)
                    <= ObservedCount

\* A score rounded to one decimal place: 1 of 7 columns mapped and no
\* anomalies, 80.2857... returned as 80.3.
RoundedScoreReturned ==
    /\ Scored
    /\ ObservedCount = 7 /\ MappedCount = 1
    /\ HighCount = 0 /\ MediumCount = 0 /\ LowCount = 0
    /\ 7 * response.quality.score # 10 * ClampedTimesObserved
    /\ response.quality.score = 803

\* C13: the grade is determined by the returned score: A iff score >= 90,
\* B iff 70 <= score < 90, C iff 50 <= score < 70, D iff score < 50.
GradeFollowsReturnedScore ==
    Scored =>
        /\ response.quality.grade = "A" <=> response.quality.score >= 900
        /\ response.quality.grade = "B" <=>
                (response.quality.score >= 700 /\ response.quality.score < 900)
        /\ response.quality.grade = "C" <=>
                (response.quality.score >= 500 /\ response.quality.score < 700)
        /\ response.quality.grade = "D" <=> response.quality.score < 500

\* C14: with the observed columns, the mapping and the medium and low
\* findings held fixed, one more high-severity finding never raises the
\* score.
OneMoreHighNeverRaisesScore ==
    Scored =>
        CalculateQualityScore(SomeColumns(request.observed), SomeMapping(request.mapped),
            SomeAnomalies(request.high + 1, request.medium, request.low)).score
          <= response.quality.score

\* A score above 0 that one more high-severity finding lowers, of a call
\* whose list already holds a high, a medium and a low finding.
HighFindingLowersScore ==
    /\ Scored
    /\ ObservedCount = 5 /\ MappedCount = 3
    /\ HighCount = 1 /\ MediumCount = 1 /\ LowCount = 1
    /\ response.quality.score > 0
    /\ CalculateQualityScore(SomeColumns(request.observed), SomeMapping(request.mapped),
            SomeAnomalies(request.high + 1, request.medium, request.low)).score
          < response.quality.score

\* _detect_anomalies has returned its list.
Detected ==
    request.op = "detect" /\ response.op = "detect" /\ response.success

\* The columns of the table that carry the name col
ColumnsNamed(df, col) ==
    {c \in 1..Len(df.columns) : df.columns[c] = col}

NegativeFindings(col) ==
    {i \in 1..Len(response.anomalies) :
        /\ response.anomalies[i].type = "negative_value"
        /\ response.anomalies[i].column = col}

\* C15: for every column that has a numeric rule and is present in the
\* normalized table there is exactly one negative_value finding, of severity
\* high, if at least one row of that column is negative, and none if no row
\* is, however many rows are negative.
OneNegativeFindingPerColumn ==
    Detected =>
        \A k \in 1..Len(AnomalyRules(request.data_type)) :
            LET col == AnomalyRules(request.data_type)[k].column
            IN  ColumnsNamed(request.df, col) # {} =>
                    IF \E c \in ColumnsNamed(request.df, col), r \in 1..Len(request.df.rows) :
                            /\ request.df.rows[r][c].kind = "number"
                            /\ request.df.rows[r][c].v < 0
                    THEN /\ Cardinality(NegativeFindings(col)) = 1
                         /\ \A i \in NegativeFindings(col) :
                                response.anomalies[i].severity = "high"
                    ELSE NegativeFindings(col) = {}

\* An analysis has returned its result.
Analyzed ==
    request.op = "analyze" /\ response.op = "analyze" /\ response.success

\* C16: two distinct observed columns never both map to the same canonical
\* field in the resulting mapping; of two columns that resolve to the same
\* field only the first is mapped and a low-severity anomaly records the
\* collision.
NoTwoColumnsShareField ==
    Analyzed =>
        \A i, j \in 1..Len(response.result.mapped_columns) :
            i # j => response.result.mapped_columns[i][2]
                        # response.result.mapped_columns[j][2]

\* C17: a column resolved by a rule-based tier keeps that canonical field in
\* the final mapping, whatever the inference service returns.
RuleTierKept ==
    Analyzed =>
        \A i \in 1..Len(RuleBasedColumnMapping(request.file.columns, request.data_type)) :
            LET kv == RuleBasedColumnMapping(request.file.columns, request.data_type)[i]
            IN  DictGet(response.result.mapped_columns, kv[1], <<>>) = kv[2]

\* _rule_based_column_mapping and _calculate_mapping_confidence have returned.
Resolved ==
    request.op = "resolve" /\ response.op = "resolve"

\* The entry of confidence_details for a column
DetailOf(col) ==
    response.confidence.details[
        CHOOSE i \in 1..Len(response.confidence.details) :
            response.confidence.details[i].original = col]

\* col is one of the variations declared for some canonical field of the type
IsDeclaredVariation(col, data_type) ==
    \E i \in 1..Len(ColumnDefs(data_type)) :
        InSeq(col, ColumnDefs(data_type)[i].variations)

IsStandardName(col, data_type) ==
    \E i \in 1..Len(ColumnDefs(data_type)) :
        ColumnDefs(data_type)[i].standard_name = col

\* C18: an observed column whose name equals a declared variation of any
\* canonical field of the data type is mapped by the rule-based resolver and
\* tagged exact or normalized (confidence 100 or 95), never inferred (75).
DeclaredVariationsResolved ==
    Resolved =>
        \A k \in 1..Len(request.columns) :
            IsDeclaredVariation(request.columns[k], request.data_type) =>
                /\ HasKey(response.mapping, request.columns[k])
                /\ IsStandardName(DictGet(response.mapping, request.columns[k], <<>>),
                                  request.data_type)
                /\ DetailOf(request.columns[k]).confidence \in {100, 95}
                /\ DetailOf(request.columns[k]).method # "ai_inference"

\* The sales column Amount, a variation both of 수량 and of 공급가액, has
\* been resolved to 수량, the earlier of the two, and tagged exact.
SharedVariationResolved ==
    /\ Resolved
    /\ request.data_type = "sales"
    /\ request.columns = << <<"A", "m", "o", "u", "n", "t">> >>
    /\ response.mapping = << << <<"A", "m", "o", "u", "n", "t">>, K_SuRyang >> >>
    /\ response.confidence.details[1].confidence = 100

\* C19: an observed column named exactly as a canonical field of the data
\* type is mapped to that field itself and tagged exact with confidence 100.
CanonicalNamesMapToThemselves ==
    Resolved =>
        \A k \in 1..Len(request.columns) :
            IsStandardName(request.columns[k], request.data_type) =>
                /\ DictGet(response.mapping, request.columns[k], <<>>) = request.columns[k]
                /\ DetailOf(request.columns[k]).confidence = 100
                /\ DetailOf(request.columns[k]).method = "exact_match"

\* The purchases column 공급업체명 has been resolved: its variation 거래처명 is
\* a canonical name of the sales type, and the purchases registry lists
\* three fields before it.
CanonicalNameResolved ==
    /\ Resolved
    /\ request.data_type = "purchases"
    /\ request.columns = <<K_GongGeubEobCheMyeong>>
    /\ response.mapping = << <<K_GongGeubEobCheMyeong, K_GongGeubEobCheMyeong>> >>
    /\ response.confidence.average = 1000

\* C20: a column the rule-based resolver matches only after normalization
\* (no variation of the mapped field is spelled exactly like it) is reported
\* with the normalized method and confidence 95, not as inferred with 75.
NormalizedMatchTagged ==
    Resolved =>
        \A i \in 1..Len(response.mapping) :
            ~InSeq(response.mapping[i][1],
                   VariationsOf(request.data_type, response.mapping[i][2])) =>
                /\ DetailOf(response.mapping[i][1]).confidence = 95
                /\ DetailOf(response.mapping[i][1]).method # "ai_inference"

----------------------------------------------------------------------------
\* Overlapping uploads.

\* The table load_excel makes of an upload (None when it refuses the file)
TableOf(inp) ==
    LoadExcel(NewProcessor.data, inp.file, inp.data_type, inp.column_mapping)
        .data[inp.data_type]

\* Upload k has returned 200.
Accepted(k) ==
    /\ inflight.tasks[k].stage = "done"
    /\ inflight.tasks[k].status = 200

\* What slot t of session sid held before the uploads began
PriorTable(sid, t) ==
    IF sid \in DOMAIN inflight.before THEN inflight.before[sid].data[t] ELSE None

\* The prior table of a slot and the tables of the accepted uploads to it
WholeTables(sid, t) ==
    {PriorTable(sid, t)}
    \cup {TableOf(inflight.tasks[k].inp) :
            k \in {j \in Tasks : /\ Accepted(j)
                                 /\ inflight.tasks[j].sid = sid
                                 /\ inflight.tasks[j].inp.data_type = t}}

BothSlotsHold ==
    \A j, k \in Tasks :
        (/\ Accepted(j) /\ Accepted(k)
         /\ inflight.tasks[j].sid = inflight.tasks[k].sid
         /\ inflight.tasks[j].inp.data_type # inflight.tasks[k].inp.data_type)
        => /\ processors[inflight.tasks[j].sid].data[inflight.tasks[j].inp.data_type]
                = TableOf(inflight.tasks[j].inp)
           /\ processors[inflight.tasks[k].sid].data[inflight.tasks[k].inp.data_type]
                = TableOf(inflight.tasks[k].inp)

SlotsHoldWholeTables ==
    \A sid \in DOMAIN processors, t \in DataTypes :
        processors[sid].data[t] \in WholeTables(sid, t)

StatusSeesWholeTables ==
    (response.op = "status" /\ response.status = 200)
    => \A i \in 1..Len(response.loaded_data) :
          \E table \in WholeTables(response.session_id, response.loaded_data[i].type)
                          \ {None} :
              /\ response.loaded_data[i].rows = Len(table.rows)
              /\ response.loaded_data[i].columns = table.columns

\* C11: when two accepted uploads to one session carry different dataset
\* types, then once both have returned, in whatever order they began and
\* resumed, each of the two slots holds the table of its upload; and every
\* slot, and every slot a status query reports, holds the table it held
\* before the uploads or the whole table of an accepted upload.
OverlappingUploadsKeepSlots ==
    /\ BothSlotsHold
    /\ SlotsHoldWholeTables
    /\ StatusSeesWholeTables

\* Two uploads of different types to a session that held a table, the second
\* begun while the first was waiting, have both returned 200.
OverlappedUploadsReturned ==
    \E j, k \in Tasks :
        /\ Accepted(j) /\ Accepted(k)
        /\ inflight.tasks[j].sid = inflight.tasks[k].sid
        /\ inflight.tasks[j].inp.data_type # inflight.tasks[k].inp.data_type
        /\ j \in inflight.tasks[k].met
        /\ PriorTable(inflight.tasks[j].sid, inflight.tasks[j].inp.data_type) # None
        /\ TableOf(inflight.tasks[j].inp)
                # PriorTable(inflight.tasks[j].sid, inflight.tasks[j].inp.data_type)

----------------------------------------------------------------------------
\* The inference step and the mapping of an analysis.

\* The analysis of the request had an API client and asked the inference
\* service about its unresolved columns.
InferenceAsked ==
    /\ request.op = "analyze" /\ response.op = "analyze"
    /\ request.file.ext \in AllowedExtensions
    /\ InSeq(request.data_type, ParserValidTypes)
    /\ request.file.readable
    /\ Len(request.file.rows) > 0 /\ Len(request.file.columns) > 0
    /\ request.client
    /\ \E i \in 1..Len(request.file.columns) :
          ~HasKey(RuleBasedColumnMapping(request.file.columns, request.data_type),
                  request.file.columns[i])

\* The call raised, its text was no JSON object, or the object holds a list
\* or an object where a name is asked for.
InferenceFailed ==
    \/ request.reply.kind = "error"
    \/ /\ request.reply.kind = "json"
       /\ \E i \in 1..Len(request.reply.mapping) :
             request.reply.mapping[i][2] = JsonList

\* C21: a failure of the inference step (exception from the call, unparseable
\* or malformed response) never fails the analysis: whenever the analysis of
\* the same sheet without an inference service succeeds, the analysis with
\* the failed inference succeeds too and returns the rule-based mapping
\* unchanged.
InferenceFailureKeepsAnalysis ==
    (/\ InferenceAsked
     /\ InferenceFailed
     /\ AnalyzeExcel(<<>>, request.file, request.data_type, FALSE, NoReply).result.success)
    => /\ response.success
       /\ response.result.mapped_columns
            = RuleBasedColumnMapping(request.file.columns, request.data_type)

\* C22: the normalized table of an analysis has only canonical field names
\* of its data type as columns: an observed column without an entry in the
\* mapping is not among them.
NormalizedColumnsAreCanonical ==
    Analyzed =>
        \A i \in 1..Len(response.result.preview_columns) :
            \E d \in 1..Len(ColumnDefs(request.data_type)) :
                ColumnDefs(request.data_type)[d].standard_name
                    = response.result.preview_columns[i]

----------------------------------------------------------------------------
\* Further properties of the synthesis (under SynthSpec).

\* C23: every payroll row is counted as direct or as indirect labour (a row
\* whose flag is neither is counted as indirect), so that in every statement
\* direct_labor + indirect_labor equals the total of the payroll table.
PayrollLaborCoversTotal ==
    (Synthesized /\ SynthesisData["payroll"] # None) =>
        Statement.cost_of_goods_sold.breakdown.direct_labor
            + Statement.selling_admin_expenses.breakdown.indirect_labor
          = SanitizeNumber(DatasetTotal(SynthesisData["payroll"], K_JiGeubChongAeg))

----------------------------------------------------------------------------
\* The ratios of the statement (under StatementSpec).

\* Twice the distance, in units of 1 / (10000 * revenue), between a ratio
\* kept in hundredths of a percent and amount / revenue * 100
RatioGap(ratio, amount) ==
    IF ratio * Statement.revenue.total >= amount * 10000
    THEN 2 * (ratio * Statement.revenue.total - amount * 10000)
    ELSE 2 * (amount * 10000 - ratio * Statement.revenue.total)

\* C24 (as stated): when the revenue total is zero or negative the three
\* ratios of the statement are 0 and the synthesis returns; when it is
\* positive each ratio is its amount divided by the revenue total, times 100.
RatiosAreQuotients ==
    Synthesized =>
        IF Statement.revenue.total <= 0
        THEN /\ Statement.ratios.cost_ratio = 0
             /\ Statement.ratios.gross_margin = 0
             /\ Statement.ratios.operating_margin = 0
        ELSE /\ RatioGap(Statement.ratios.cost_ratio,
                         Statement.cost_of_goods_sold.total) = 0
             /\ RatioGap(Statement.ratios.gross_margin, Statement.gross_profit) = 0
             /\ RatioGap(Statement.ratios.operating_margin,
                         Statement.operating_profit) = 0

\* C24 (amended): when the revenue total is zero or negative the three ratios
\* are 0 and the synthesis returns; when it is positive each ratio is its
\* amount divided by the revenue total, times 100, rounded to two decimal
\* places (it is within 0.005 of the quotient).
RatiosAreRoundedQuotients ==
    Synthesized =>
        IF Statement.revenue.total <= 0
        THEN /\ Statement.ratios.cost_ratio = 0
             /\ Statement.ratios.gross_margin = 0
             /\ Statement.ratios.operating_margin = 0
        ELSE /\ RatioGap(Statement.ratios.cost_ratio,
                         Statement.cost_of_goods_sold.total) <= Statement.revenue.total
             /\ RatioGap(Statement.ratios.gross_margin, Statement.gross_profit)
                    <= Statement.revenue.total
             /\ RatioGap(Statement.ratios.operating_margin,
                         Statement.operating_profit) <= Statement.revenue.total

\* A statement with a negative revenue total and costs has been returned.
NonPositiveRevenueSynthesized ==
    /\ Synthesized
    /\ Statement.revenue.total < 0
    /\ Statement.cost_of_goods_sold.total > 0
    /\ Statement.ratios.cost_ratio = 0

----------------------------------------------------------------------------
\* Uploads and the synthesis (under SynthSpec).

\* C25: for a session whose sales slot holds a table, every slot having been
\* stored by an accepted upload, a synthesis succeeds and returns a
\* statement: the columns checked at upload are the columns the synthesis
\* reads.
AcceptedUploadsSynthesize ==
    (/\ request.op = "generate" /\ response.op = "generate"
     /\ request.session_id \in DOMAIN processors
     /\ processors[request.session_id].data["sales"] # None)
    => /\ response.success
       /\ response.status = 200
       /\ response.result # NoResult

\* C26: a synthesis that follows a synthesis of the same session, with no
\* other request in between, returns the same statement, warnings and errors
\* as the first, and leaves the six slots as they were.
SynthesisRepeatable ==
    [][(/\ request.op = "generate" /\ response.op = "generate" /\ response.success
        /\ request'.op = "generate" /\ response'.op = "generate"
        /\ request'.session_id = request.session_id)
       => /\ response'.success
          /\ response'.result = response.result
          /\ processors'[request.session_id].data
                = processors[request.session_id].data]_vars

----------------------------------------------------------------------------
\* Uploads and deletes (under RaceSpec).

\* C27: in every interleaving of uploads, status queries, syntheses and
\* deletes, when an upload has returned accepted for a session and a type,
\* and no delete has been handled since, the session exists and holds a
\* table of that type (a status query finds it and reports the type as
\* loaded): an upload never reports success against a session that a delete
\* removed while the upload waited for its file.
AcceptedUploadIsDurable ==
    (request.op = "upload" /\ response.op = "upload" /\ response.status = 200)
    => /\ response.session_id \in DOMAIN processors
       /\ processors[response.session_id].data[response.data_type] # None

----------------------------------------------------------------------------
\* Rejected uploads (under Spec).

\* C28: an upload that is rejected does not change the set of sessions; a
\* session id that was unknown before a rejected upload is unknown after it.
RejectedUploadKeepsSessions ==
    [][(request'.op = "upload" /\ response'.op = "upload" /\ ~response'.success)
       => DOMAIN processors' = DOMAIN processors]_vars

----------------------------------------------------------------------------
\* The vocabulary of the returned mapping (under ParserSpec).

\* C29: in every mapping analyze_excel returns, every key is one of the
\* observed columns of the sheet and every value is a standard name of the
\* requested data type, the entries that come from the inference reply
\* included.
MappingWithinVocabulary ==
    Analyzed =>
        \A i \in 1..Len(response.result.mapped_columns) :
            /\ InSeq(response.result.mapped_columns[i][1],
                     response.result.original_columns)
            /\ \E j \in 1..Len(ColumnDefs(request.data_type)) :
                    ColumnDefs(request.data_type)[j].standard_name
                        = response.result.mapped_columns[i][2]

----------------------------------------------------------------------------
\* The breakdowns of the statement (under StatementSpec).

\* a + b of two float64 values of the statement
FloatSum(a, b) ==
    RoundToFloat(a + b)

\* C30: in every statement the four components of the cost-of-goods-sold
\* breakdown sum to its total, and sg_expenses + indirect_labor is the total
\* of selling and administrative expenses (the sums taken in float64, as
\* the statement's numbers are).
BreakdownsSumToTotals ==
    Synthesized =>
        /\ FloatSum(FloatSum(FloatSum(
                Statement.cost_of_goods_sold.breakdown.raw_materials,
                Statement.cost_of_goods_sold.breakdown.direct_labor),
                Statement.cost_of_goods_sold.breakdown.manufacturing_overhead),
                Statement.cost_of_goods_sold.breakdown.inventory_adjustment)
           = Statement.cost_of_goods_sold.total
        /\ FloatSum(Statement.selling_admin_expenses.breakdown.sg_expenses,
                    Statement.selling_admin_expenses.breakdown.indirect_labor)
           = Statement.selling_admin_expenses.total

====
